---- MODULE Spec2Model ----
(***************************************************************************)
(* Barricade: the disposition store of electron/main.cjs (quarantine,      *)
(* vault, restore, unvault, shred, organize, listings) and the Sentry      *)
(* scheduler of App.tsx, as state machines.                                *)
(*                                                                         *)
(* SpecStore  the IPC handlers of the main process acting on the file      *)
(*            system.  A handler runs to completion except at an await:    *)
(*            fs:quarantine and fs:vault await getFileHash, so they are    *)
(*            three steps (begin, hash read, finish); every other handler  *)
(*            has no await before its last statement and is one step.      *)
(* SpecSentry the setInterval callback of App.tsx with the notification    *)
(*            outbox, the snooze map and the native alert sink.            *)
(***************************************************************************)
EXTENDS Integers, Sequences, FiniteSets, TLC

VARIABLES
    fs,        \* user files: path -> content (domain = the paths that exist)
    hold,      \* stored-content files of both holding directories
    side,      \* '.meta.json' sidecars of both holding directories
    clock,     \* Date.now()
    calls,     \* fs:quarantine / fs:vault invocations in flight, in order of arrival
    budget,    \* events the model still explores (invocations, faults, new files)
    last,      \* the handler that returned last, with its return value
    notifications,  \* App.tsx notifications state (the outbox)
    snoozeMap,      \* App.tsx snoozeMap state
    settings,       \* enableProactiveSentry / enableNativeNotifications
    scanning,       \* Sentry ticks suspended at await scanUserDirectories()
    native,         \* ids of the native notifications shown so far
    lastTick,       \* the Sentry tick or notification handler that ran last
    files           \* the FileItem list the detector is given

vars == <<fs, hold, side, clock, calls, budget, last,
          notifications, snoozeMap, settings, scanning, native, lastTick, files>>

storeVars == <<fs, hold, side, calls, budget, last>>
sentryVars == <<notifications, snoozeMap, settings, scanning, native, lastTick, files>>

----------------------------------------------------------------------------
(* Bounds of the model *)

\* Events explored from the initial state: each handler invocation, each file the
\* environment creates and each clock tick is one event, each injected I/O
\* failure one more.
MaxEvents == 4
\* fs:quarantine / fs:vault invocations in flight at the same time.
MaxCalls == 2
MaxBatch == 1

----------------------------------------------------------------------------
(* Files *)

StartTime == 100

Dirs == {<<"Downloads">>, <<"Desktop">>}

\* A file name: stem, the stamp fs:organize adds on a collision (0: none), extension.
PlainName == [stem |-> "x", stamp |-> 0, ext |-> ".txt"]

UserPaths == {[dir |-> d, name |-> PlainName] : d \in Dirs}

NoContent == [size |-> 0, data |-> "empty"]

FileContents == {[size |-> 2, data |-> "A"], [size |-> 2, data |-> "B"]}

basename(p) == p.name

dirname(p) == p.dir

join(dir, name) == [dir |-> dir, name |-> name]

\* hash.digest('hex') of a stream over content c: injective on the contents modelled
sha256(c) == <<"sha256", c.size, c.data>>

\* crypto.randomBytes(size)
randomBytes(size) == IF size = 0 THEN NoContent ELSE [size |-> size, data |-> "random"]

\* Variant: a removal that leaves the entry.
RemoveKeeps(f, x) == f

Remove(f, x) == [y \in DOMAIN f \ {x} |-> f[y]]

Put(f, x, v) == [y \in DOMAIN f \cup {x} |-> IF y = x THEN v ELSE f[y]]

Empty == [x \in {} |-> 0]

----------------------------------------------------------------------------
(* Holding directories *)

Kinds == {"quarantine", "vault"}

Reasons == {"flagged"}

\* path.join(getQuarantineDir(), `${timestamp}_${fileName}.quarantined`), and the
\* same under getVaultDir() with '.vault': the kind stands for directory and suffix.
quarantinedPath(kind, timestamp, fileName) ==
    [kind |-> kind, timestamp |-> timestamp, fileName |-> fileName]

\* The metadata object of fs:quarantine / fs:vault, as JSON.stringify writes it.
metadata(filePath, at, reason, digest) ==
    [valid |-> TRUE, originalPath |-> filePath, originalName |-> basename(filePath),
     at |-> at, reason |-> reason, sha256 |-> digest]

\* What a writeFileSync that failed after opening its file leaves behind: a
\* truncated sidecar, which JSON.parse rejects.
Truncated ==
    [valid |-> FALSE, originalPath |-> join(<<>>, PlainName), originalName |-> PlainName,
     at |-> 0, reason |-> "", sha256 |-> <<>>]

PathInputs == UserPaths \cup DOMAIN fs

\* The stored path a fs:quarantine / fs:vault invocation computes.
StoredOf(c) == quarantinedPath(c.kind, c.timestamp, basename(c.filePath))

\* The stored paths the renderer can name: those in the holding directories and
\* the one the last restore was given.
StoredInputs ==
    DOMAIN hold \cup DOMAIN side
        \cup (IF last.op \in {"restore", "unvault"} THEN {last.arg} ELSE {})

\* The channel that serves a stored path.
Channel(storedPath) == IF storedPath.kind = "vault" THEN "unvault" ELSE "restore"

----------------------------------------------------------------------------
(* fs:quarantine and fs:vault *)

Spend(n) == budget >= n /\ budget' = budget - n

\* An injected failure is an event; a call that fails because its file is missing
\* is not one.
Cost(injected) == IF injected THEN 1 ELSE 0

\* The invocations in flight without the one that returned.
Leave(cs, i) == [k \in 1 .. (Len(cs) - 1) |-> IF k < i THEN cs[k] ELSE cs[k + 1]]

\* What a handler returns: the channel, its argument, { success, error } (error
\* names the call that threw) and the payload of a success.
Returned(op, arg, error, out) ==
    [op |-> op, arg |-> arg, success |-> error = "", error |-> error, out |-> out]

\* Up to the await: names, timestamp, the metadata fields known so far, and the
\* call of getFileHash, whose stream opens and reads the file later.
PlaceBegin(kind, filePath, reason) ==
    /\ Len(calls) < MaxCalls
    /\ calls' = Append(calls,
          [pc |-> "hashing", kind |-> kind, filePath |-> filePath, reason |-> reason,
           timestamp |-> clock, sha256 |-> <<>>])
    /\ Spend(1)
    /\ UNCHANGED <<fs, hold, side, clock, last>>
    /\ UNCHANGED sentryVars

\* getFileHash: the read stream delivers the file's bytes ('end': resolve with the
\* digest) or fails ('error': reject, which the handler's catch turns into a
\* failure result).
getFileHash(i, io) ==
    /\ i \in DOMAIN calls
    /\ calls[i].pc = "hashing"
    /\ IF calls[i].filePath \in DOMAIN fs /\ io = "ok"
       THEN /\ calls' = [calls EXCEPT ![i].pc = "hashed",
                                      ![i].sha256 = sha256(fs[calls[i].filePath])]
            /\ last' = last
       ELSE /\ calls' = Leave(calls, i)
            /\ last' = Returned(calls[i].kind, calls[i].filePath, "hash", {})
    /\ Spend(Cost(io # "ok"))
    /\ UNCHANGED <<fs, hold, side, clock>>
    /\ UNCHANGED sentryVars

\* The outcomes of the I/O calls: "ok", or the name of the call that throws.
HashIO == {"ok", "error"}

PlaceIO == {"ok", "rename", "write", "writeTruncated"}

RestoreIO == {"ok", "rename", "unlink"}

\* Variant: a rename that moves the file although it reports a failure.
renameSyncMovesAnyway(filePath, io) == filePath \in DOMAIN fs

\* Whether fs.renameSync(filePath, ...) returns rather than throws.
renameSync(filePath, io) == filePath \in DOMAIN fs /\ io # "rename"

\* After the await: renameSync into the holding directory, writeFileSync of the
\* sidecar, return.  io names the call that throws, if one does; a writeFileSync
\* that throws has either not created the sidecar ("write") or left it
\* truncated ("writeTruncated").
PlaceFinish(i, io) ==
    /\ i \in DOMAIN calls
    /\ calls[i].pc = "hashed"
    /\ LET c == calls[i]
           sp == StoredOf(c)
           moved == renameSync(c.filePath, io)
           m == metadata(c.filePath, c.timestamp, c.reason, c.sha256)
       IN  /\ fs' = IF moved THEN Remove(fs, c.filePath) ELSE fs
           /\ hold' = IF moved THEN Put(hold, sp, fs[c.filePath]) ELSE hold
           /\ side' = CASE moved /\ io = "ok" -> Put(side, sp, m)
                        [] moved /\ io = "writeTruncated" -> Put(side, sp, Truncated)
                        [] OTHER -> side
           /\ last' = Returned(c.kind, c.filePath,
                               CASE ~moved -> "rename"
                                 [] io = "ok" -> ""
                                 [] OTHER -> "write",
                               IF moved /\ io = "ok" THEN {sp} ELSE {})
    /\ calls' = Leave(calls, i)
    /\ Spend(Cost(io # "ok"))
    /\ UNCHANGED clock
    /\ UNCHANGED sentryVars

----------------------------------------------------------------------------
(* fs:restore and fs:unvault (the two handlers have the same body) *)

\* storedPath: the argument; io: the call that throws although its file is there
\* ("rename", "unlink"), if one does.
Restore(storedPath, io) ==
    LET parsed == storedPath \in DOMAIN side /\ side[storedPath].valid
        moved == parsed /\ storedPath \in DOMAIN hold /\ io # "rename"
        unlinked == moved /\ io # "unlink"
        target == side[storedPath].originalPath
    IN  /\ fs' = IF moved THEN Put(fs, target, hold[storedPath]) ELSE fs
        /\ hold' = IF moved THEN Remove(hold, storedPath) ELSE hold
        /\ side' = IF unlinked THEN Remove(side, storedPath) ELSE side
        /\ last' = Returned(Channel(storedPath), storedPath,
                            CASE storedPath \notin DOMAIN side -> "read"
                              [] ~parsed -> "parse"
                              [] ~moved -> "rename"
                              [] ~unlinked -> "unlink"
                              [] OTHER -> "",
                            IF unlinked THEN {target} ELSE {})
        /\ Spend(1 + Cost(io # "ok"))
        /\ UNCHANGED <<clock, calls>>
        /\ UNCHANGED sentryVars

----------------------------------------------------------------------------
(* fs:list-quarantine and fs:list-vault *)

\* The directory entries the loop does not skip: the stored-content files.
ContentFiles(kind) == {sp \in DOMAIN hold : sp.kind = kind}

\* The handler's return value.  A sidecar that exists is parsed inside the one
\* try block around the loop: a sidecar JSON.parse rejects makes the handler
\* return [].
ListEntries(kind) ==
    LET paired == {sp \in ContentFiles(kind) : sp \in DOMAIN side}
    IN  IF \E sp \in paired : ~side[sp].valid
        THEN {}
        ELSE {[meta |-> side[sp], storedPath |-> sp] : sp \in paired}

List(kind) ==
    /\ last' = Returned("list", kind, "", ListEntries(kind))
    /\ Spend(1)
    /\ UNCHANGED <<fs, hold, side, clock, calls>>
    /\ UNCHANGED sentryVars

----------------------------------------------------------------------------
(* fs:shred *)

ShredPasses == 3

\* The file after `done` completed overwrite passes.
Overwritten(content, done) == IF done = 0 THEN content ELSE randomBytes(content.size)

\* Variant: a shred that moves the file into the quarantine directory.
ShredToTrash(filePath, io) ==
    /\ filePath \in DOMAIN fs
    /\ fs' = Remove(fs, filePath)
    /\ hold' = Put(hold, quarantinedPath("quarantine", clock, basename(filePath)),
                   fs[filePath])
    /\ last' = Returned("shred", filePath, "", {})
    /\ Spend(1)
    /\ UNCHANGED <<side, clock, calls>>
    /\ UNCHANGED sentryVars

\* io.at: the call that throws ("stat", "write", "unlink") or "ok"; io.pass: the
\* pass whose writeFileSync throws; io.truncated: whether that writeFileSync had
\* opened (and so emptied) the file before it failed.
Shred(filePath, io) ==
    LET exists == filePath \in DOMAIN fs /\ io.at # "stat"
        size == fs[filePath].size
        done == IF io.at = "write" THEN io.pass - 1 ELSE ShredPasses
        wrote == exists /\ io.at # "write"
        unlinked == wrote /\ io.at # "unlink"
    IN  /\ fs' = CASE unlinked -> Remove(fs, filePath)
                   [] exists /\ io.at = "write" /\ io.truncated ->
                          Put(fs, filePath, NoContent)
                   [] exists -> Put(fs, filePath, Overwritten(fs[filePath], done))
                   [] OTHER -> fs
        /\ last' = Returned("shred", filePath,
                            CASE ~exists -> "stat"
                              [] ~wrote -> "write"
                              [] ~unlinked -> "unlink"
                              [] OTHER -> "",
                            IF exists THEN {[writes |-> done, bytes |-> size]} ELSE {})
        /\ Spend(1 + Cost(io.at # "ok"))
        /\ UNCHANGED <<hold, side, clock, calls>>
        /\ UNCHANGED sentryVars

ShredIO ==
    {[at |-> a, pass |-> 0, truncated |-> FALSE] : a \in {"ok", "stat", "unlink"}}
        \cup [at : {"write"}, pass : 1 .. ShredPasses, truncated : BOOLEAN]

----------------------------------------------------------------------------
(* fs:deep-scan *)

\* Pieces a scanned buffer is put together from.
MaxPieces == 3

\* A file with bytes: the buffer fs.readFileSync returns and the result of the
\* entropy loop over it, in thousandths of a bit (the loop is not recomputed:
\* every value is tried with every buffer, an empty buffer has entropy 0).
Padded(bytes, zeros, entropy) ==
    [size |-> Len(bytes) + zeros, data |-> "bytes", bytes |-> bytes, zeros |-> zeros,
     entropy |-> entropy]

BytesOf(bytes, entropy) == Padded(bytes, 0, entropy)

\* A Buffer: the bytes `head` followed by `zeros` bytes of value 0, so that a
\* file of megabytes is a value of a few bytes.
Buffer(head, zeros) == [head |-> head, zeros |-> zeros]

\* buffer.length
byteLength(buffer) == Len(buffer.head) + buffer.zeros

\* fs.readFileSync(filePath) of a content.
readFileSync(content) ==
    CASE content.data = "bytes" -> Buffer(content.bytes, content.zeros)
      [] content.data = "A" -> Buffer([i \in 1 .. content.size |-> 65], 0)
      [] content.data = "B" -> Buffer([i \in 1 .. content.size |-> 66], 0)
      [] OTHER -> Buffer([i \in 1 .. content.size |-> i % 256], 0)

entropyOf(content) == IF content.data = "bytes" THEN content.entropy ELSE 0

\* path.extname(filePath).toLowerCase()
toLowerCase(ext) ==
    CASE ext = ".JPG" -> ".jpg"
      [] ext = ".PNG" -> ".png"
      [] OTHER -> ext

\* Variant: a cap that refuses the file of exactly the cap's size.
TooLargeAtCap(size) == size >= 10 * 1024 * 1024

\* stats.size > 10 * 1024 * 1024
TooLarge(size) == size > 10 * 1024 * 1024

\* Buffer.from([0xFF, 0xD9])
JpegEnd == <<255, 217>>

\* Buffer.from('IEND')
PngEnd == <<73, 69, 78, 68>>

\* ['powershell', 'cmd.exe', 'http://', 'https://', '/tmp/', 'eval(', 'base64']
suspiciousStrings ==
    << <<112, 111, 119, 101, 114, 115, 104, 101, 108, 108>>,
       <<99, 109, 100, 46, 101, 120, 101>>,
       <<104, 116, 116, 112, 58, 47, 47>>,
       <<104, 116, 116, 112, 115, 58, 47, 47>>,
       <<47, 116, 109, 112, 47>>,
       <<101, 118, 97, 108, 40>>,
       <<98, 97, 115, 101, 54, 52>> >>

\* The 0-based indices at which `marker` occurs in the sequence `bytes`.
Occurrences(bytes, marker) ==
    {i \in 0 .. (Len(bytes) - Len(marker)) :
        \A k \in 1 .. Len(marker) : bytes[i + k] = marker[k]}

\* String.prototype.includes
includes(str, word) == Occurrences(str, word) # {}

Zeros(n) == [i \in 1 .. n |-> 0]

\* The 0-based indices at which `marker` occurs in a Buffer: those that start
\* in the head (they reach into at most Len(marker) of the zeros behind it),
\* and, for a marker of zeros only, those inside the run of zeros.
BufferOccurrences(buffer, marker) ==
    LET reach == IF buffer.zeros < Len(marker) THEN buffer.zeros ELSE Len(marker)
        inRun == IF /\ \A k \in DOMAIN marker : marker[k] = 0
                    /\ buffer.zeros >= Len(marker)
                 THEN Len(buffer.head) .. (byteLength(buffer) - Len(marker))
                 ELSE {}
    IN  Occurrences(buffer.head \o Zeros(reach), marker) \cup inRun

\* Variant: buffer.indexOf(marker), the first occurrence.
indexOf(buffer, marker) ==
    LET at == BufferOccurrences(buffer, marker)
    IN  IF at = {} THEN -1 ELSE CHOOSE i \in at : \A j \in at : i <= j

\* buffer.lastIndexOf(marker)
lastIndexOf(buffer, marker) ==
    LET at == BufferOccurrences(buffer, marker)
    IN  IF at = {} THEN -1 ELSE CHOOSE i \in at : \A j \in at : j <= i

\* buffer.toString('utf8').includes(s), s an ASCII string
toStringIncludes(buffer, str) == BufferOccurrences(buffer, str) # {}

\* findings.push(...); threatLevel = level.  trace keeps every value threatLevel
\* is given, in order.
Push(st, finding, level) ==
    [findings |-> Append(st.findings, finding), threatLevel |-> level,
     trace |-> Append(st.trace, level)]

\* let findings = []; let threatLevel = 'safe'
ScanStart == [findings |-> <<>>, threatLevel |-> "safe", trace |-> <<"safe">>]

entropyCheck(st, entropy) ==
    IF entropy > 7500
    THEN Push(st, [kind |-> "entropy", bytes |-> 0], "suspicious")
    ELSE st

\* Variant: a JPEG check that counts the end marker among the hidden bytes.
jpegCheckFromMarker(st, ext, buffer) ==
    LET eofIndex == lastIndexOf(buffer, JpegEnd)
    IN  IF ext \in {".jpg", ".jpeg"} /\ eofIndex # -1 /\ eofIndex < byteLength(buffer) - 2
        THEN Push(st, [kind |-> "jpeg", bytes |-> byteLength(buffer) - eofIndex], "malicious")
        ELSE st

\* Steganography: data after the end marker of a JPEG.
jpegCheck(st, ext, buffer) ==
    LET eofIndex == lastIndexOf(buffer, JpegEnd)
    IN  IF ext \in {".jpg", ".jpeg"} /\ eofIndex # -1 /\ eofIndex < byteLength(buffer) - 2
        THEN Push(st, [kind |-> "jpeg", bytes |-> byteLength(buffer) - eofIndex - 2], "malicious")
        ELSE st

\* Variant: a PNG check that rates its finding suspicious.
pngCheckSuspicious(st, ext, buffer) ==
    LET eofIndex == lastIndexOf(buffer, PngEnd)
    IN  IF ext = ".png" /\ eofIndex # -1 /\ eofIndex < byteLength(buffer) - 8
        THEN Push(st, [kind |-> "png", bytes |-> 0], "suspicious")
        ELSE st

\* Steganography: data after the IEND chunk of a PNG.
pngCheck(st, ext, buffer) ==
    LET eofIndex == lastIndexOf(buffer, PngEnd)
    IN  IF ext = ".png" /\ eofIndex # -1 /\ eofIndex < byteLength(buffer) - 8
        THEN Push(st, [kind |-> "png", bytes |-> 0], "malicious")
        ELSE st

\* The loop over suspiciousStrings from string k on: one finding per string found.
RECURSIVE stringsCheck(_, _, _)
stringsCheck(st, buffer, k) ==
    IF k > Len(suspiciousStrings)
    THEN st
    ELSE stringsCheck(IF toStringIncludes(buffer, suspiciousStrings[k])
                      THEN Push(st, [kind |-> "string", bytes |-> k], "malicious")
                      ELSE st,
                      buffer, k + 1)

\* The checks of fs:deep-scan in the order of the code; ext is already lower case.
deepScan(ext, buffer, entropy) ==
    stringsCheck(pngCheck(jpegCheck(entropyCheck(ScanStart, entropy), ext, buffer),
                          ext, buffer),
                 buffer, 1)

\* entropy.toFixed(2), in hundredths
toFixed(entropy) == (entropy + 5) \div 10

ScanIO == {"ok", "stat", "read"}

\* The handler.  io: the call that throws although the file is there, if one does.
DeepScan(filePath, io) ==
    LET exists == filePath \in DOMAIN fs
        content == fs[filePath]
        error == CASE ~exists -> "File not found"
                   [] io = "stat" -> "stat"
                   [] TooLarge(content.size) -> "File too large for deep scan"
                   [] io = "read" -> "read"
                   [] OTHER -> ""
        result == deepScan(toLowerCase(filePath.name.ext), readFileSync(content),
                           entropyOf(content))
    IN  /\ last' = Returned("deepScan", filePath, error,
                            IF error = ""
                            THEN {[findings |-> result.findings,
                                   threatLevel |-> result.threatLevel,
                                   trace |-> result.trace,
                                   entropy |-> toFixed(entropyOf(content)),
                                   timestamp |-> clock]}
                            ELSE {})
        /\ Spend(1 + Cost(io # "ok"))
        /\ UNCHANGED <<fs, hold, side, clock, calls>>
        /\ UNCHANGED sentryVars

\* The buffers scanned: up to MaxPieces pieces, one after the other.
Pieces ==
    {JpegEnd, <<217>>, PngEnd, Zeros(4), Zeros(37), suspiciousStrings[3]}

RECURSIVE BuffersOf(_)
BuffersOf(k) ==
    IF k = 0 THEN {<<>>}
    ELSE LET shorter == BuffersOf(k - 1)
         IN  shorter \cup {b \o piece : b \in shorter, piece \in Pieces}

Exts == {".jpg", ".JPG", ".jpeg", ".png", ".txt"}

\* Entropies at and around the threshold of 7.5 bits.
Entropies == {0, 7500, 7501}

ScanContents ==
    {BytesOf(b, e) : b \in BuffersOf(MaxPieces) \ {<<>>}, e \in Entropies}
        \cup {BytesOf(<<>>, 0)}
        \cup {Padded(head, size - Len(head), 0) :
                 head \in {<<>>, JpegEnd, suspiciousStrings[3]},
                 size \in {10 * 1024 * 1024, 10 * 1024 * 1024 + 1}}

----------------------------------------------------------------------------
(* fs:organize *)

getFileType(ext) ==
    CASE ext \in {".png", ".jpg", ".jpeg"} -> "Image"
      [] ext \in {".pdf", ".txt"} -> "Document"
      [] ext \in {".exe", ".bat"} -> "Executable"
      [] OTHER -> "Other"

\* The loop of fs:organize from file k on.  failAt: the index of the file whose
\* renameSync throws (0: none); the moves made before it stay.
RECURSIVE OrganizeLoop(_, _, _, _, _, _, _)
OrganizeLoop(f, filePaths, k, category, failAt, now, results) ==
    IF k > Len(filePaths)
    THEN [fs |-> f, success |-> TRUE, results |-> results]
    ELSE LET filePath == filePaths[k]
             fileName == basename(filePath)
             subfolder == IF category # "" THEN category ELSE getFileType(fileName.ext)
             targetDir == Append(dirname(filePath), subfolder)
             targetPath == join(targetDir, fileName)
             finalPath == IF targetPath \in DOMAIN f
                          THEN join(targetDir, [fileName EXCEPT !.stamp = now])
                          ELSE targetPath
         IN  IF filePath \notin DOMAIN f
             THEN OrganizeLoop(f, filePaths, k + 1, category, failAt, now, results)
             ELSE IF failAt = k
             THEN [fs |-> f, success |-> FALSE, results |-> <<>>]
             ELSE OrganizeLoop(Put(Remove(f, filePath), finalPath, f[filePath]),
                               filePaths, k + 1, category, failAt, now,
                               Append(results, [original |-> filePath, newPath |-> finalPath]))

Organize(filePaths, category, failAt) ==
    LET r == OrganizeLoop(fs, filePaths, 1, category, failAt, clock, <<>>)
    IN  /\ fs' = r.fs
        /\ last' = Returned("organize", filePaths, IF r.success THEN "" ELSE "rename",
                            {r.results})
        /\ Spend(1 + Cost(failAt # 0))
        /\ UNCHANGED <<hold, side, clock, calls>>
        /\ UNCHANGED sentryVars

\* The batches tried: files of the Downloads directory itself.
Batches ==
    UNION {[1 .. n -> {p \in PathInputs : p.dir = <<"Downloads">>}] : n \in 1 .. MaxBatch}

----------------------------------------------------------------------------
(* Environment of the store *)

\* A file appears in a monitored directory (a download, a saved document).
CreateFile(filePath, content) ==
    /\ filePath \notin DOMAIN fs
    /\ fs' = Put(fs, filePath, content)
    /\ Spend(1)
    /\ UNCHANGED <<hold, side, clock, calls, last>>
    /\ UNCHANGED sentryVars

\* Date.now() moves on; two handlers may also run within the same millisecond.
ClockTick ==
    /\ clock' = clock + 1
    /\ Spend(1)
    /\ UNCHANGED <<fs, hold, side, calls, last>>
    /\ UNCHANGED sentryVars

----------------------------------------------------------------------------
(* The store *)

NoOp == Returned("", "", "none", {})

NoNote == [id |-> <<"", 0>>, type |-> "", actionPrompt |-> FALSE]

\* A run of the interval callback or of handleNotificationAction: what it was
\* given and what it did.
Ran(op, now, id, screenshots, downloads, newNotes, forwarded, note, prompted) ==
    [op |-> op, now |-> now, id |-> id, screenshots |-> screenshots,
     downloads |-> downloads, newNotes |-> newNotes, forwarded |-> forwarded,
     note |-> note, prompted |-> prompted]

NoTick == Ran("", 0, <<"", 0>>, 0, 0, <<>>, <<>>, NoNote, FALSE)

\* The settings of a first start.
DefaultSettings ==
    [enableProactiveSentry |-> TRUE, enableNativeNotifications |-> TRUE,
     sentryScanInterval |-> 1]

SentryIdle ==
    /\ notifications = <<>>
    /\ snoozeMap = Empty
    /\ scanning = 0
    /\ native = {}
    /\ lastTick = NoTick
    /\ files = <<>>

InitStore ==
    /\ fs = [p \in UserPaths |-> [size |-> 2, data |-> IF p.dir = <<"Downloads">> THEN "A" ELSE "B"]]
    /\ hold = Empty
    /\ side = Empty
    /\ clock = StartTime
    /\ calls = <<>>
    /\ budget = MaxEvents
    /\ last = NoOp
    /\ settings = DefaultSettings
    /\ SentryIdle

NextStore ==
    \/ \E k \in Kinds, p \in PathInputs, r \in Reasons : PlaceBegin(k, p, r)
    \/ \E i \in 1 .. MaxCalls, io \in HashIO : getFileHash(i, io)
    \/ \E i \in 1 .. MaxCalls, io \in PlaceIO : PlaceFinish(i, io)
    \/ \E sp \in StoredInputs, io \in RestoreIO : Restore(sp, io)
    \/ \E k \in Kinds : List(k)
    \/ \E p \in PathInputs, io \in ShredIO : Shred(p, io)
    \/ \E b \in Batches, failAt \in 0 .. MaxBatch : Organize(b, "", failAt)
    \/ ClockTick
    \/ \E p \in UserPaths, c \in FileContents : CreateFile(p, c)

SpecStore == InitStore /\ [][NextStore]_vars

\* The two handlers that move a file into a holding directory, alone: their
\* invocations interleave at the await of the digest.
NextPlace ==
    \/ \E k \in Kinds, p \in PathInputs, r \in Reasons : PlaceBegin(k, p, r)
    \/ \E i \in 1 .. MaxCalls, io \in HashIO : getFileHash(i, io)
    \/ \E i \in 1 .. MaxCalls, io \in PlaceIO : PlaceFinish(i, io)
    \/ ClockTick

SpecPlace == InitStore /\ [][NextPlace]_vars

\* One file with bytes in Downloads, scanned.
InitDeepScan ==
    /\ \E ext \in Exts, content \in ScanContents :
          fs = [p \in {join(<<"Downloads">>, [PlainName EXCEPT !.ext = ext])} |-> content]
    /\ hold = Empty
    /\ side = Empty
    /\ clock = StartTime
    /\ calls = <<>>
    /\ budget = 2
    /\ last = NoOp
    /\ settings = DefaultSettings
    /\ SentryIdle

NextDeepScan == \E p \in PathInputs, io \in ScanIO : DeepScan(p, io)

SpecDeepScan == InitDeepScan /\ [][NextDeepScan]_vars

----------------------------------------------------------------------------
(* threatDetector.ts *)

\* Name pieces a drawn file name is made of.
MaxNameParts == 2

\* Files in a drawn list.
MaxFiles == 5

\* A string is the sequence of its characters.
Upper ==
    <<"A", "B", "C", "D", "E", "F", "G", "H", "I", "J", "K", "L", "M",
      "N", "O", "P", "Q", "R", "S", "T", "U", "V", "W", "X", "Y", "Z">>

Lower ==
    <<"a", "b", "c", "d", "e", "f", "g", "h", "i", "j", "k", "l", "m",
      "n", "o", "p", "q", "r", "s", "t", "u", "v", "w", "x", "y", "z">>

\* String.prototype.toLowerCase(), and the case folding of the i flag
lowerCase(str) ==
    [k \in DOMAIN str |->
        IF \E u \in DOMAIN Upper : Upper[u] = str[k]
        THEN Lower[CHOOSE u \in DOMAIN Upper : Upper[u] = str[k]]
        ELSE str[k]]

\* The alternatives of the regular expressions of the detector: a literal, a
\* literal at the end of the string ($), and head.*tail with or without $.
Lit(word) == [head |-> word, tail |-> <<>>, end |-> FALSE]

End(word) == [head |-> word, tail |-> <<>>, end |-> TRUE]

Then(head, tail) == [head |-> head, tail |-> tail, end |-> FALSE]

ThenEnd(head, tail) == [head |-> head, tail |-> tail, end |-> TRUE]

\* One alternative matches a string already folded to lower case.
Matches(a, str) ==
    LET head == lowerCase(a.head)
        tail == lowerCase(a.tail)
        AtEnd(i, word) == i + Len(word) = Len(str)
    IN  IF tail = <<>>
        THEN \E i \in Occurrences(str, head) : a.end => AtEnd(i, head)
        ELSE \E i \in Occurrences(str, head) :
                \E j \in Occurrences(str, tail) :
                    /\ j >= i + Len(head)
                    /\ a.end => AtEnd(j, tail)

\* pattern.test(str) for a pattern with the i flag
test(pattern, str) == \E a \in pattern : Matches(a, lowerCase(str))

\* for (const pattern of patterns) if (pattern.test(str)) ...
anyTest(patterns, str) == \E k \in DOMAIN patterns : test(patterns[k], str)
SUSPICIOUS_PATTERNS ==
    <<{Lit(<<"c", "r", "a", "c", "k">>),
       Lit(<<"k", "e", "y", "g", "e", "n">>),
       Lit(<<"p", "a", "t", "c", "h">>),
       Lit(<<"a", "c", "t", "i", "v", "a", "t", "o", "r">>),
       Lit(<<"l", "o", "a", "d", "e", "r">>)},
      {Lit(<<"h", "a", "c", "k">>),
       Lit(<<"c", "h", "e", "a", "t">>),
       Lit(<<"e", "x", "p", "l", "o", "i", "t">>),
       Lit(<<"b", "y", "p", "a", "s", "s">>)},
      {End(<<".", "e", "x", "e", ".", "t", "x", "t">>),
       End(<<".", "p", "d", "f", ".", "e", "x", "e">>),
       End(<<".", "d", "o", "c", ".", "e", "x", "e">>)},
      {End(<<".", "s", "c", "r">>),
       End(<<".", "p", "i", "f">>),
       End(<<".", "c", "o", "m">>)},
      {ThenEnd(<<"t", "e", "m", "p">>, <<".", "e", "x", "e">>)},
      {Then(<<"s", "e", "t", "u", "p">>, <<"c", "r", "a", "c", "k">>)}>>
MALICIOUS_PATTERNS ==
    <<{Lit(<<"t", "r", "o", "j", "a", "n">>),
       Lit(<<"m", "a", "l", "w", "a", "r", "e">>),
       Lit(<<"v", "i", "r", "u", "s">>),
       Lit(<<"r", "a", "n", "s", "o", "m", "w", "a", "r", "e">>),
       Lit(<<"w", "o", "r", "m">>)},
      {Lit(<<"c", "r", "y", "p", "t", "o", "l", "o", "c", "k", "e", "r">>),
       Lit(<<"w", "a", "n", "n", "a", "c", "r", "y">>),
       Lit(<<"p", "e", "t", "y", "a">>),
       Lit(<<"l", "o", "c", "k", "y">>)},
      {Lit(<<"k", "e", "y", "l", "o", "g">>),
       Lit(<<"s", "p", "y", "w", "a", "r", "e">>),
       Lit(<<"a", "d", "w", "a", "r", "e">>),
       Lit(<<"r", "o", "o", "t", "k", "i", "t">>)},
      {Lit(<<"f", "a", "k", "e", "a", "l", "e", "r", "t">>),
       Lit(<<"r", "o", "g", "u", "e">>),
       Lit(<<"s", "c", "a", "r", "e", "w", "a", "r", "e">>)}>>
SUSPICIOUS_LOCATIONS ==
    <<{ThenEnd(<<"\\", "A", "p", "p", "D", "a", "t", "a", "\\", "L", "o", "c", "a", "l", "\\", "T", "e", "m", "p", "\\">>, <<".", "e", "x", "e">>)},
      {ThenEnd(<<"\\", "T", "e", "m", "p", "\\">>, <<".", "e", "x", "e">>)},
      {ThenEnd(<<"\\", "P", "r", "o", "g", "r", "a", "m", "D", "a", "t", "a", "\\">>, <<".", "e", "x", "e">>)},
      {ThenEnd(<<"\\", "U", "s", "e", "r", "s", "\\", "P", "u", "b", "l", "i", "c", "\\">>, <<".", "e", "x", "e">>)}>>
\* ['.exe', '.msi', '.bat', '.cmd', '.ps1', '.vbs', '.js']
Executables ==
    {<<".", "e", "x", "e">>,
     <<".", "m", "s", "i">>,
     <<".", "b", "a", "t">>,
     <<".", "c", "m", "d">>,
     <<".", "p", "s", "1">>,
     <<".", "v", "b", "s">>,
     <<".", "j", "s">>}
\* A FileItem, with the fields the detector reads.
FileItem(name, path, extension, threatLevel, privacyLevel) ==
    [name |-> name, path |-> path, extension |-> extension,
     threatLevel |-> threatLevel, privacyLevel |-> privacyLevel]

\* Variant: the suspicious rules are tried before the malicious name patterns.
analyzeThreatLevelSuspiciousFirst(file) ==
    LET fullPath == file.path
    IN  IF file.extension = <<".", "e", "x", "e">> /\ anyTest(SUSPICIOUS_LOCATIONS, fullPath)
        THEN "suspicious"
        ELSE IF anyTest(SUSPICIOUS_PATTERNS, file.name)
        THEN "suspicious"
        ELSE IF /\ lowerCase(file.extension) \in Executables
                /\ includes(lowerCase(fullPath), <<"d", "o", "w", "n", "l", "o", "a", "d">>)
        THEN "suspicious"
        ELSE IF anyTest(MALICIOUS_PATTERNS, file.name)
        THEN "malicious"
        ELSE "safe"

\* analyzeThreatLevel(file): the first rule that matches returns.
analyzeThreatLevel(file) ==
    LET fullPath == file.path
    IN  IF anyTest(MALICIOUS_PATTERNS, file.name)
        THEN "malicious"
        ELSE IF file.extension = <<".", "e", "x", "e">> /\ anyTest(SUSPICIOUS_LOCATIONS, fullPath)
        THEN "suspicious"
        ELSE IF anyTest(SUSPICIOUS_PATTERNS, file.name)
        THEN "suspicious"
        ELSE IF /\ lowerCase(file.extension) \in Executables
                /\ includes(lowerCase(fullPath), <<"d", "o", "w", "n", "l", "o", "a", "d">>)
        THEN "suspicious"
        ELSE "safe"

\* files.filter(keep).length
Count(fl, keep(_)) == Len(SelectSeq(fl, keep))

\* Variant: Math.max without its lower bound.
MathMaxSecond(a, b) == b

MathMax(a, b) == IF a >= b THEN a ELSE b

MathMin(a, b) == IF a <= b THEN a ELSE b

\* getSecuritySummary(files)
getSecuritySummary(fl) ==
    LET isMalicious(f) == f.threatLevel = "malicious"
        isSuspicious(f) == f.threatLevel = "suspicious"
        isCritical(f) == f.privacyLevel = "critical"
        isSensitive(f) == f.privacyLevel = "sensitive"
        malicious == Count(fl, isMalicious)
        suspicious == Count(fl, isSuspicious)
        critical == Count(fl, isCritical)
        sensitive == Count(fl, isSensitive)
        score == 100 - malicious * 25 - suspicious * 5 - critical * 10 - sensitive * 2
    IN  [totalFiles |-> Len(fl),
         maliciousCount |-> malicious,
         suspiciousCount |-> suspicious,
         criticalPrivacyCount |-> critical,
         sensitivePrivacyCount |-> sensitive,
         integrityScore |-> MathMax(0, MathMin(100, score)),
         status |-> IF malicious > 0 THEN "alert"
                    ELSE IF suspicious > 0 THEN "warning" ELSE "protected"]

\* The detector is applied to the file of the list.
ClassifyThreat ==
    /\ Len(files) = 1
    /\ last' = Returned("analyzeThreatLevel", files[1], "", {analyzeThreatLevel(files[1])})
    /\ UNCHANGED <<fs, hold, side, clock, calls, budget>>
    /\ UNCHANGED sentryVars

\* The summary of the list is taken.
Summarize ==
    /\ last' = Returned("getSecuritySummary", files, "", {getSecuritySummary(files)})
    /\ UNCHANGED <<fs, hold, side, clock, calls, budget>>
    /\ UNCHANGED sentryVars

\* The strings file names are drawn from.
NamePieces ==
    {<<"T", "r", "o", "j", "a", "n">>,
     <<"W", "O", "R", "M">>,
     <<"l", "o", "c", "k", "y">>,
     <<"r", "o", "o", "t", "k", "i", "t">>,
     <<"r", "o", "g", "u", "e">>,
     <<"c", "r", "a", "c", "k">>,
     <<"s", "e", "t", "u", "p">>,
     <<"t", "e", "m", "p">>,
     <<"r", "e", "p", "o", "r", "t">>}

RECURSIVE NamesOf(_)
NamesOf(n) ==
    IF n = 0 THEN {<<>>}
    ELSE LET shorter == NamesOf(n - 1)
         IN  shorter \cup {s \o piece : s \in shorter, piece \in NamePieces}

NameEnds ==
    {<<".", "e", "x", "e">>,
     <<".", "E", "X", "E">>,
     <<".", "t", "x", "t">>,
     <<".", "s", "c", "r">>}

Extensions ==
    {<<".", "e", "x", "e">>,
     <<".", "E", "X", "E">>,
     <<".", "t", "x", "t">>,
     <<".", "s", "c", "r">>}

Folders ==
    {<<"C", ":", "\\", "T", "e", "m", "p", "\\">>,
     <<"C", ":", "\\", "U", "s", "e", "r", "s", "\\", "m", "e", "\\", "D", "o", "w", "n", "l", "o", "a", "d", "s", "\\">>,
     <<"C", ":", "\\", "D", "o", "c", "s", "\\">>}

\* The files the detector is given, as the directory listing makes them
\* (main.cjs:176-187): not yet classified.
RawFiles ==
    {FileItem(stem \o ext, folder \o stem \o ext, extension, "safe", "public") :
        stem \in NamesOf(MaxNameParts), ext \in NameEnds,
        extension \in Extensions, folder \in Folders}

\* Classified files, by their two levels.
Classified ==
    {FileItem(<<>>, <<>>, <<>>, level[1], level[2]) :
        level \in {<<"malicious", "public">>, <<"malicious", "critical">>,
                   <<"suspicious", "public">>, <<"safe", "critical">>,
                   <<"safe", "sensitive">>, <<"safe", "public">>}}

RECURSIVE ListsOf(_)
ListsOf(n) ==
    IF n = 0 THEN {<<>>}
    ELSE LET shorter == ListsOf(n - 1)
         IN  shorter \cup {Append(fl, f) : fl \in shorter, f \in Classified}

DetectorIdle ==
    /\ fs = Empty
    /\ hold = Empty
    /\ side = Empty
    /\ clock = StartTime
    /\ calls = <<>>
    /\ budget = 0
    /\ last = NoOp
    /\ settings = DefaultSettings
    /\ notifications = <<>>
    /\ snoozeMap = Empty
    /\ scanning = 0
    /\ native = {}
    /\ lastTick = NoTick

InitClassify ==
    /\ DetectorIdle
    /\ \E file \in RawFiles : files = <<file>>

NextClassify == ClassifyThreat

SpecClassify == InitClassify /\ [][NextClassify]_vars

InitSummary ==
    /\ DetectorIdle
    /\ files \in ListsOf(MaxFiles)

NextSummary == Summarize

SpecSummary == InitSummary /\ [][NextSummary]_vars

----------------------------------------------------------------------------
(* scanDirectory and fs:scan-all *)

\* os.homedir(), as the names of its path
Home == <<<<"h", "o", "m", "e">>, <<"u">>>>

\* The directories that exist below it (there is no Documents directory).
Directories ==
    {<<<<"h", "o", "m", "e">>, <<"u">>, <<"D", "o", "w", "n", "l", "o", "a", "d", "s">>>>,
     <<<<"h", "o", "m", "e">>, <<"u">>, <<"D", "o", "w", "n", "l", "o", "a", "d", "s">>, <<"S", "u", "b">>>>,
     <<<<"h", "o", "m", "e">>, <<"u">>, <<"D", "e", "s", "k", "t", "o", "p">>>>,
     <<<<"h", "o", "m", "e">>, <<"u">>, <<"P", "i", "c", "t", "u", "r", "e", "s">>>>,
     <<<<"h", "o", "m", "e">>, <<"u">>, <<"P", "i", "c", "t", "u", "r", "e", "s">>, <<"S", "c", "r", "e", "e", "n", "s", "h", "o", "t", "s">>>>,
     <<<<"h", "o", "m", "e">>, <<"u">>, <<"P", "i", "c", "t", "u", "r", "e", "s">>, <<"S", "c", "r", "e", "e", "n", "s", "h", "o", "t", "s">>, <<"O", "l", "d">>>>,
     <<<<"h", "o", "m", "e">>, <<"u">>, <<"P", "i", "c", "t", "u", "r", "e", "s">>, <<".", "c", "a", "c", "h", "e">>>>}

\* The files that may be there.
ScanFiles ==
    {join(<<<<"h", "o", "m", "e">>, <<"u">>, <<"D", "o", "w", "n", "l", "o", "a", "d", "s">>>>, <<"d", ".", "t", "x", "t">>),
     join(<<<<"h", "o", "m", "e">>, <<"u">>, <<"D", "o", "w", "n", "l", "o", "a", "d", "s">>, <<"S", "u", "b">>>>, <<"e", ".", "t", "x", "t">>),
     join(<<<<"h", "o", "m", "e">>, <<"u">>, <<"P", "i", "c", "t", "u", "r", "e", "s">>>>, <<"a", ".", "p", "n", "g">>),
     join(<<<<"h", "o", "m", "e">>, <<"u">>, <<"P", "i", "c", "t", "u", "r", "e", "s">>>>, <<".", "h", ".", "p", "n", "g">>),
     join(<<<<"h", "o", "m", "e">>, <<"u">>, <<"D", "e", "s", "k", "t", "o", "p">>>>, <<"$", "r", ".", "p", "n", "g">>),
     join(<<<<"h", "o", "m", "e">>, <<"u">>, <<"P", "i", "c", "t", "u", "r", "e", "s">>, <<"S", "c", "r", "e", "e", "n", "s", "h", "o", "t", "s">>>>, <<"s", ".", "p", "n", "g">>),
     join(<<<<"h", "o", "m", "e">>, <<"u">>, <<"P", "i", "c", "t", "u", "r", "e", "s">>, <<"S", "c", "r", "e", "e", "n", "s", "h", "o", "t", "s">>>>, <<"t", ".", "p", "n", "g">>),
     join(<<<<"h", "o", "m", "e">>, <<"u">>, <<"P", "i", "c", "t", "u", "r", "e", "s">>, <<"S", "c", "r", "e", "e", "n", "s", "h", "o", "t", "s">>, <<"O", "l", "d">>>>, <<"o", ".", "p", "n", "g">>),
     join(<<<<"h", "o", "m", "e">>, <<"u">>, <<"P", "i", "c", "t", "u", "r", "e", "s">>, <<".", "c", "a", "c", "h", "e">>>>, <<"c", ".", "p", "n", "g">>)}

\* A path as the string the handlers see.
RECURSIVE pathString(_)
pathString(dir) ==
    IF dir = <<>> THEN <<>>
    ELSE pathString(SubSeq(dir, 1, Len(dir) - 1)) \o <<"/">> \o dir[Len(dir)]

\* getUserDirectories(), in the order of Object.entries
getUserDirectories(platform) ==
    <<Home \o <<<<"D", "o", "w", "n", "l", "o", "a", "d", "s">>>>,
      Home \o <<<<"D", "o", "c", "u", "m", "e", "n", "t", "s">>>>,
      Home \o <<<<"D", "e", "s", "k", "t", "o", "p">>>>,
      Home \o <<<<"P", "i", "c", "t", "u", "r", "e", "s">>>>,
      IF platform \in {"win32", "darwin"}
      THEN Home \o <<<<"P", "i", "c", "t", "u", "r", "e", "s">>, <<"S", "c", "r", "e", "e", "n", "s", "h", "o", "t", "s">>>>
      ELSE Home \o <<<<"P", "i", "c", "t", "u", "r", "e", "s">>>> >>

Platforms == {"win32", "linux"}

\* getFolderType(dirPath)
getFolderType(dirPath) ==
    LET lowerPath == lowerCase(pathString(dirPath))
    IN  IF includes(lowerPath, <<"d", "o", "w", "n", "l", "o", "a", "d">>) THEN "Downloads"
        ELSE IF includes(lowerPath, <<"s", "c", "r", "e", "e", "n", "s", "h", "o", "t">>) THEN "Screenshots"
        ELSE IF includes(lowerPath, <<"d", "o", "c", "u", "m", "e", "n", "t">>) THEN "Documents"
        ELSE IF includes(lowerPath, <<"d", "e", "s", "k", "t", "o", "p">>) THEN "Desktop"
        ELSE IF includes(lowerPath, <<"p", "i", "c", "t", "u", "r", "e">>) THEN "Pictures"
        ELSE IF includes(lowerPath, <<"q", "u", "a", "r", "a", "n", "t", "i", "n", "e">>) THEN "Quarantine"
        ELSE "Other"

\* entry.name.startsWith(c)
startsWith(str, c) == Len(str) > 0 /\ str[1] = c

\* The entries the loop does not skip.
Visible(name) == ~startsWith(name, ".") /\ ~startsWith(name, "$")

\* The elements of a set in the order readdirSync happens to give them.
RECURSIVE ListOf(_)
ListOf(S) ==
    IF S = {} THEN <<>>
    ELSE LET x == CHOOSE y \in S : TRUE
         IN  <<x>> \o ListOf(S \ {x})

\* files.push(...subFiles) for each list of a sequence of lists
RECURSIVE Flat(_)
Flat(lists) ==
    IF lists = <<>> THEN <<>>
    ELSE Flat(SubSeq(lists, 1, Len(lists) - 1)) \o lists[Len(lists)]

\* The object files.push adds for a file (its id is a fresh UUID).
ScannedFile(f, p) ==
    [name |-> basename(p), path |-> p, size |-> f[p].size,
     folder |-> getFolderType(dirname(p)), threatLevel |-> "safe",
     privacyLevel |-> "public"]

\* Variant: a file that cannot be stat'ed ends the scan of its directory with
\* nothing.
RECURSIVE scanDirectoryAborts(_, _, _, _, _)
scanDirectoryAborts(f, fault, dirPath, maxDepth, currentDepth) ==
    IF currentDepth >= maxDepth \/ dirPath \notin Directories \/ dirPath \in fault.dirs
    THEN <<>>
    ELSE IF \E p \in DOMAIN f : p.dir = dirPath /\ Visible(p.name) /\ p \in fault.files
    THEN <<>>
    ELSE LET entries == ListOf({p \in DOMAIN f : p.dir = dirPath /\ Visible(p.name)})
             subdirs == ListOf({d \in Directories :
                                  /\ Len(d) = Len(dirPath) + 1
                                  /\ SubSeq(d, 1, Len(dirPath)) = dirPath
                                  /\ Visible(d[Len(d)])})
         IN  [k \in 1 .. Len(entries) |-> ScannedFile(f, entries[k])]
             \o (IF currentDepth < maxDepth - 1
                 THEN Flat([k \in 1 .. Len(subdirs) |->
                              scanDirectoryAborts(f, fault, subdirs[k], maxDepth,
                                                  currentDepth + 1)])
                 ELSE <<>>)

\* scanDirectory(dirPath, maxDepth, currentDepth) over the files f.  fault: the
\* directories whose readdirSync throws and the files whose statSync throws.  The files of a directory come before those of its subdirectories
\* here; readdirSync mixes them in the order of the names.
RECURSIVE scanDirectory(_, _, _, _, _)
scanDirectory(f, fault, dirPath, maxDepth, currentDepth) ==
    IF currentDepth >= maxDepth \/ dirPath \notin Directories \/ dirPath \in fault.dirs
    THEN <<>>
    ELSE LET entries == ListOf({p \in DOMAIN f :
                                  p.dir = dirPath /\ Visible(p.name) /\ p \notin fault.files})
             subdirs == ListOf({d \in Directories :
                                  /\ Len(d) = Len(dirPath) + 1
                                  /\ SubSeq(d, 1, Len(dirPath)) = dirPath
                                  /\ Visible(d[Len(d)])})
         IN  [k \in 1 .. Len(entries) |-> ScannedFile(f, entries[k])]
             \o (IF currentDepth < maxDepth - 1
                 THEN Flat([k \in 1 .. Len(subdirs) |->
                              scanDirectory(f, fault, subdirs[k], maxDepth,
                                            currentDepth + 1)])
                 ELSE <<>>)

\* The handler of fs:scan-all: every user directory, two levels deep.
scanAll(f, fault, platform) ==
    LET dirs == getUserDirectories(platform)
    IN  Flat([k \in DOMAIN dirs |-> scanDirectory(f, fault, dirs[k], 2, 0)])

\* What can fail during a scan: nothing, one directory, one file.
ScanFaults ==
    {[dirs |-> {}, files |-> {}]}
        \cup {[dirs |-> {d}, files |-> {}] : d \in Directories}
        \cup {[dirs |-> {}, files |-> {p}] : p \in ScanFiles}

ScanAll(platform, fault) ==
    /\ Spend(1)
    /\ last' = Returned("scanAll", [platform |-> platform, fault |-> fault], "",
                        {scanAll(fs, fault, platform)})
    /\ UNCHANGED <<fs, hold, side, clock, calls>>
    /\ UNCHANGED sentryVars

InitScan ==
    /\ \E present \in SUBSET ScanFiles : fs = [p \in present |-> [size |-> 2, data |-> "A"]]
    /\ hold = Empty
    /\ side = Empty
    /\ clock = StartTime
    /\ calls = <<>>
    /\ budget = 1
    /\ last = NoOp
    /\ settings = DefaultSettings
    /\ SentryIdle

NextScan == \E platform \in Platforms, fault \in ScanFaults : ScanAll(platform, fault)

SpecScan == InitScan /\ [][NextScan]_vars

----------------------------------------------------------------------------
(* The working set of the renderer: executeAction, handleManualQuarantine *)

\* The record of a scanned file in the state `files` (App.tsx), with the fields
\* the handlers below read or write.
FileRecord(id, p) == [id |-> id, path |-> p, folder |-> p.dir[1], threatLevel |-> "safe"]

\* The pending actions that move a file into a holding directory.
ActionTypes == {"QUARANTINE", "VAULT"}

\* quarantineFile / vaultFile: the channel each invokes.
ChannelOf(type) == IF type = "QUARANTINE" THEN "quarantine" ELSE "vault"

\* The updates executeAction makes to the record after a success.
Disposed(type) ==
    IF type = "QUARANTINE"
    THEN [folder |-> "Quarantine", threatLevel |-> "suspicious"]
    ELSE [folder |-> "Vault", threatLevel |-> "safe"]

\* onUpdateFile: { ...f, ...up }
onUpdateFile(fl, k, up) ==
    [fl EXCEPT ![k] = [@ EXCEPT !.folder = up.folder, !.threatLevel = up.threatLevel]]

\* The call that throws during the invocation, if one does.
ExecIO == {"ok", "hash", "rename", "write"}

\* executeAction for one target file and a QUARANTINE or VAULT action:
\* `success = await quarantineFile(file.path, description)`, the handler running
\* from start to return with no other step in between, then
\* `if (success) setFiles(...)`.
executeAction(type, k, io) ==
    /\ k \in DOMAIN files
    /\ LET file == files[k]
           sp == quarantinedPath(ChannelOf(type), clock, basename(file.path))
           hashed == file.path \in DOMAIN fs /\ io # "hash"
           moved == hashed /\ renameSync(file.path, io)
           success == moved /\ io # "write"
       IN  /\ fs' = IF moved THEN Remove(fs, file.path) ELSE fs
           /\ hold' = IF moved THEN Put(hold, sp, fs[file.path]) ELSE hold
           /\ side' = IF success
                      THEN Put(side, sp, metadata(file.path, clock, "flagged",
                                                  sha256(fs[file.path])))
                      ELSE side
           /\ last' = Returned(ChannelOf(type), file.path,
                               CASE ~hashed -> "hash"
                                 [] ~moved -> "rename"
                                 [] ~success -> "write"
                                 [] OTHER -> "",
                               IF success THEN {sp} ELSE {})
           /\ files' = IF success THEN onUpdateFile(files, k, Disposed(type)) ELSE files
    /\ Spend(1)
    /\ UNCHANGED <<clock, calls>>
    /\ UNCHANGED <<notifications, snoozeMap, settings, scanning, native, lastTick>>

\* handleManualQuarantine (FileListView.tsx): the button of a row, shown in
\* every folder view but that of Quarantine.  It updates the record and sends
\* a chat message; it invokes no handler of the store.
handleManualQuarantine(k) ==
    /\ k \in DOMAIN files
    /\ files[k].folder # "Quarantine"
    /\ files' = onUpdateFile(files, k, Disposed("QUARANTINE"))
    /\ Spend(1)
    /\ UNCHANGED <<fs, hold, side, clock, calls, last>>
    /\ UNCHANGED <<notifications, snoozeMap, settings, scanning, native, lastTick>>

\* After the first scan: one record for each file.
InitApp ==
    /\ fs = [p \in UserPaths |-> [size |-> 2, data |-> IF p.dir = <<"Downloads">> THEN "A" ELSE "B"]]
    /\ files = <<FileRecord(1, join(<<"Downloads">>, PlainName)),
                 FileRecord(2, join(<<"Desktop">>, PlainName))>>
    /\ hold = Empty
    /\ side = Empty
    /\ clock = StartTime
    /\ calls = <<>>
    /\ budget = MaxEvents
    /\ last = NoOp
    /\ settings = DefaultSettings
    /\ notifications = <<>>
    /\ snoozeMap = Empty
    /\ scanning = 0
    /\ native = {}
    /\ lastTick = NoTick

NextApp ==
    \/ \E type \in ActionTypes, k \in 1 .. 2, io \in ExecIO : executeAction(type, k, io)
    \/ \E k \in 1 .. 2 : handleManualQuarantine(k)
    \/ ClockTick

SpecApp == InitApp /\ [][NextApp]_vars

----------------------------------------------------------------------------
(* Properties of the store *)

RestoreOps == {"restore", "unvault"}

\* C1: a successful quarantine or vault of P followed by a successful restore of
\* the stored path it returned leaves a file at P whose digest is the sha256 of
\* the side-record written when P was placed.
C1_RoundTripDigest ==
    [][\A sp \in StoredInputs, io \in RestoreIO :
          (Restore(sp, io) /\ last'.success)
          => LET P == side[sp].originalPath
             IN  P \in DOMAIN fs' /\ sha256(fs'[P]) = side[sp].sha256]_vars

\* C2: a listing returns exactly the entries of its holding directory whose
\* stored-content file and sidecar both exist.
C2_ListingIsThePairs ==
    \A kind \in Kinds :
        {e.storedPath : e \in ListEntries(kind)}
            = {sp \in DOMAIN hold \cap DOMAIN side : sp.kind = kind}

\* C7: when the digest computation or the rename of a quarantine or vault
\* fails, the handler returns a failure and the user files, the stored-content
\* files and the sidecars are what they were.
C7_FailedPlaceChangesNothing ==
    [][\A i \in 1 .. MaxCalls :
          (\/ \E io \in HashIO : getFileHash(i, io) /\ Len(calls') < Len(calls)
           \/ PlaceFinish(i, "rename"))
          => /\ ~last'.success
             /\ last'.op = calls[i].kind
             /\ fs' = fs /\ hold' = hold /\ side' = side]_vars

\* C7 (case reached): a quarantine or vault has just failed at its rename and
\* its source file is in place, nothing is held.
C7_Witness ==
    /\ last.op \in Kinds /\ last.error = "rename"
    /\ last.arg \in DOMAIN fs
    /\ DOMAIN hold = {} /\ DOMAIN side = {}
    /\ budget < MaxEvents

\* C8: the sha256 of every side-record is the digest of the content held at the
\* record's stored path.
C8_Provenance ==
    \A sp \in DOMAIN side \cap DOMAIN hold :
        side[sp].valid => side[sp].sha256 = sha256(hold[sp])

\* C9: after a successful restore or unvault neither the stored-content file nor
\* the side-record exists and no listing returns the record; a second restore of
\* the same stored path fails and changes no file.
C9_RestoreDestroysRecord ==
    /\ [](last.op \in RestoreOps /\ last.success
          => /\ last.arg \notin DOMAIN hold
             /\ last.arg \notin DOMAIN side
             /\ \A kind \in Kinds : \A e \in ListEntries(kind) : e.storedPath # last.arg)
    /\ [][\A io \in RestoreIO :
             (last.op \in RestoreOps /\ last.success /\ Restore(last.arg, io))
             => /\ ~last'.success
                /\ fs' = fs /\ hold' = hold /\ side' = side]_vars

\* C9 (case reached): the restore of a stored path that an earlier restore has
\* emptied has just failed.
C9_Witness ==
    /\ last.op \in RestoreOps /\ last.error = "read"
    /\ last.arg \notin DOMAIN hold /\ last.arg \notin DOMAIN side
    /\ \E p \in DOMAIN fs : basename(p) = last.arg.fileName

\* C10: a restore whose original path is occupied by another file fails: the
\* occupying file keeps its content and the record stays in the holding directory.
C10_RestoreConflict ==
    [][\A sp \in StoredInputs, io \in RestoreIO :
          (/\ Restore(sp, io)
           /\ sp \in DOMAIN hold /\ sp \in DOMAIN side /\ side[sp].valid
           /\ side[sp].originalPath \in DOMAIN fs)
          => /\ ~last'.success
             /\ fs' = fs
             /\ sp \in DOMAIN hold' /\ sp \in DOMAIN side']_vars

\* C11: a successful shred of P leaves no file at P and adds nothing to the
\* holding directories: their stored-content files and side-records are what
\* they were, so nothing a later restore, unvault or listing returns comes from
\* the shred, also when a new file is created at P.
C11_ShredLeavesNothing ==
    [][\A p \in PathInputs, io \in ShredIO :
          (Shred(p, io) /\ last'.success)
          => /\ p \notin DOMAIN fs'
             /\ hold' = hold /\ side' = side
             /\ \A kind \in Kinds : ListEntries(kind)' = ListEntries(kind)]_vars

\* C11 (case reached): a file was shredded, a new file has been created at its
\* path, and the holding directories are empty.
C11_Witness ==
    /\ last.op = "shred" /\ last.success
    /\ last.arg \in DOMAIN fs
    /\ DOMAIN hold = {} /\ DOMAIN side = {}

\* The results of a successful deep scan that is the last handler to return.
Scanned == IF last.op = "deepScan" /\ last.success THEN last.out ELSE {}

Rank(level) ==
    CASE level = "safe" -> 0
      [] level = "suspicious" -> 1
      [] level = "malicious" -> 2

FindingKinds(r) == {r.findings[i].kind : i \in DOMAIN r.findings}

\* C12: within one deep scan the threat level is never lowered; the final level
\* is malicious iff a JPEG-trailer, PNG-trailer or suspicious-string finding
\* fired, suspicious iff only the high-entropy finding fired, safe iff there is
\* no finding.
C12_LevelAggregation ==
    \A r \in Scanned :
        /\ \A i, j \in DOMAIN r.trace : i <= j => Rank(r.trace[i]) <= Rank(r.trace[j])
        /\ r.threatLevel = r.trace[Len(r.trace)]
        /\ r.threatLevel = "malicious"
              <=> FindingKinds(r) \cap {"jpeg", "png", "string"} # {}
        /\ r.threatLevel = "suspicious" <=> FindingKinds(r) = {"entropy"}
        /\ r.threatLevel = "safe" <=> r.findings = <<>>

\* C12 (case reached): a scan found high entropy and then a malicious marker.
C12_Witness ==
    \E r \in Scanned :
        /\ Len(r.trace) >= 3
        /\ r.trace[2] = "suspicious"
        /\ r.threatLevel = "malicious"
        /\ "entropy" \in FindingKinds(r)

\* C13: for a .jpg/.jpeg buffer of length L whose last FF D9 starts at index i,
\* the scan adds a trailing-data finding and returns malicious iff L - i - 2 > 0,
\* and the finding names L - i - 2 bytes; without the marker, or with the marker
\* as the last two bytes, there is no such finding.
C13_JpegTrailingBytes ==
    \A r \in Scanned :
        last.arg.name.ext \in {".jpg", ".jpeg"}
        => LET buffer == fs[last.arg].bytes
               L == fs[last.arg].size
               ends == {i \in 0 .. (Len(buffer) - 2) :
                           buffer[i + 1] = 255 /\ buffer[i + 2] = 217}
               i == CHOOSE e \in ends : \A o \in ends : o <= e
               jpeg == SelectSeq(r.findings, LAMBDA f : f.kind = "jpeg")
           IN  IF ends # {} /\ L - i - 2 > 0
               THEN /\ Len(jpeg) = 1
                    /\ jpeg[1].bytes = L - i - 2
                    /\ r.threatLevel = "malicious"
               ELSE jpeg = <<>>

\* C13 (case reached): a .jpg that ends with its end marker and 37 more bytes
\* was scanned, and the finding names 37 bytes.
C13_Witness ==
    \E r \in Scanned :
        /\ last.arg.name.ext = ".jpg"
        /\ Len(fs[last.arg].bytes) = 39
        /\ SubSeq(fs[last.arg].bytes, 1, 2) = <<255, 217>>
        /\ r.threatLevel = "malicious"
        /\ \E k \in DOMAIN r.findings :
              r.findings[k].kind = "jpeg" /\ r.findings[k].bytes = 37

\* The summary that is the last result returned.
Summaries == IF last.op = "getSecuritySummary" THEN last.out ELSE {}

\* clamp(100 - 25*malicious - 5*suspicious - 10*critical - 2*sensitive, 0, 100)
ClampedScore(malicious, suspicious, critical, sensitive) ==
    LET score == 100 - 25 * malicious - 5 * suspicious - 10 * critical - 2 * sensitive
    IN  IF score < 0 THEN 0 ELSE IF score > 100 THEN 100 ELSE score

\* The number of files of a list with a value in a field.
Having(fl, field, value) == Cardinality({k \in DOMAIN fl : fl[k][field] = value})

\* C14: the integrity score of a summary is 100 - 25*malicious - 5*suspicious
\* - 10*criticalPrivacy - 2*sensitivePrivacy clamped to [0, 100], for every
\* file list; it lies in [0, 100], and it does not increase when one of the four
\* counts increases by a file while the others stay fixed.
C14_IntegrityScore ==
    \A s \in Summaries :
        LET m == Having(files, "threatLevel", "malicious")
            u == Having(files, "threatLevel", "suspicious")
            c == Having(files, "privacyLevel", "critical")
            n == Having(files, "privacyLevel", "sensitive")
        IN  /\ s.integrityScore = ClampedScore(m, u, c, n)
            /\ s.integrityScore \in 0 .. 100
            /\ \A f \in Classified :
                  getSecuritySummary(Append(files, f)).integrityScore <= s.integrityScore
            /\ ClampedScore(m + 1, u, c, n) <= s.integrityScore
            /\ ClampedScore(m, u + 1, c, n) <= s.integrityScore
            /\ ClampedScore(m, u, c + 1, n) <= s.integrityScore
            /\ ClampedScore(m, u, c, n + 1) <= s.integrityScore

\* A summary of five malicious files, whose score before the clamp is below zero.
C14_Witness ==
    \E s \in Summaries :
        /\ s.maliciousCount = 5
        /\ s.integrityScore = 0

\* The levels returned for the file of the list.
Levels == IF last.op = "analyzeThreatLevel" THEN last.out ELSE {}

\* The words of the malicious name patterns.
MaliciousWords == UNION {{a.head : a \in MALICIOUS_PATTERNS[k]} : k \in DOMAIN MALICIOUS_PATTERNS}

NameIsMalicious(file) == \E word \in MaliciousWords : includes(lowerCase(file.name), word)

\* The rules after the first, each on its own.
SuspiciousLocation(file) ==
    file.extension = <<".", "e", "x", "e">> /\ anyTest(SUSPICIOUS_LOCATIONS, file.path)

SuspiciousName(file) == anyTest(SUSPICIOUS_PATTERNS, file.name)

DownloadedExecutable(file) ==
    /\ lowerCase(file.extension) \in Executables
    /\ includes(lowerCase(file.path), <<"d", "o", "w", "n", "l", "o", "a", "d">>)

\* C15: the malicious name check comes first and the first match wins: a file
\* whose name matches a malicious pattern is malicious whatever its extension
\* and path, also when a suspicious-location, suspicious-name or
\* downloaded-executable rule matches it too; any other file is suspicious
\* exactly when one of those three rules matches, and safe otherwise.
C15_MaliciousNameFirst ==
    \A level \in Levels :
        LET file == last.arg
        IN  IF NameIsMalicious(file) THEN level = "malicious"
            ELSE IF SuspiciousLocation(file) \/ SuspiciousName(file) \/ DownloadedExecutable(file)
            THEN level = "suspicious"
            ELSE level = "safe"

\* A file with a malicious name that a suspicious rule matches too.
C15_Witness ==
    \E level \in Levels :
        /\ NameIsMalicious(last.arg)
        /\ SuspiciousLocation(last.arg)
        /\ SuspiciousName(last.arg)
        /\ level = "malicious"

\* The handler that returns in this step reports a failure: success = false and
\* an error message.
ReportsFailure == ~last'.success /\ last'.error # ""

\* Quarantine, vault, restore, unvault and shred: a missing path and a call that
\* throws each end in a failure result, and the invocation is over.
PlaceFailuresReported ==
    /\ \A i \in 1 .. MaxCalls, io \in HashIO :
          (getFileHash(i, io) /\ (io # "ok" \/ calls[i].filePath \notin DOMAIN fs))
          => (ReportsFailure /\ Len(calls') = Len(calls) - 1)
    /\ \A i \in 1 .. MaxCalls, io \in PlaceIO :
          (PlaceFinish(i, io) /\ (io # "ok" \/ calls[i].filePath \notin DOMAIN fs))
          => (ReportsFailure /\ Len(calls') = Len(calls) - 1)

RestoreFailuresReported ==
    \A sp \in StoredInputs, io \in RestoreIO :
        (Restore(sp, io) /\ (io # "ok" \/ sp \notin DOMAIN side \/ sp \notin DOMAIN hold))
        => ReportsFailure

ShredFailuresReported ==
    \A p \in PathInputs, io \in ShredIO :
        (Shred(p, io) /\ (io.at # "ok" \/ p \notin DOMAIN fs)) => ReportsFailure

\* Organize: a rename that throws, and a path of the batch that does not exist.
OrganizeThrowReported ==
    \A b \in Batches, failAt \in 1 .. MaxBatch :
        (/\ Organize(b, "", failAt)
         /\ failAt \in DOMAIN b
         /\ b[failAt] \in DOMAIN fs
         /\ \A k \in 1 .. (failAt - 1) : b[k] # b[failAt])
        => ReportsFailure

OrganizeMissingReported ==
    \A b \in Batches, failAt \in 0 .. MaxBatch :
        (Organize(b, "", failAt) /\ \E k \in DOMAIN b : b[k] \notin DOMAIN fs)
        => ReportsFailure

\* C16: every failure of quarantine, vault, restore, unvault, shred and organize
\* (a missing path, a read, rename, write or unlink that throws) is returned as
\* a result with success = false and an error message, and the invocation ends.
C16_FailuresAreReported ==
    [][/\ PlaceFailuresReported
       /\ RestoreFailuresReported
       /\ ShredFailuresReported
       /\ OrganizeThrowReported
       /\ OrganizeMissingReported]_vars

\* The failures of deepScan: a missing file, a file over the size cap, a stat or
\* read that throws.
C16_ScanFailuresReported ==
    [][\A p \in PathInputs, io \in ScanIO :
          (DeepScan(p, io) /\ (io # "ok" \/ p \notin DOMAIN fs \/ TooLarge(fs[p].size)))
          => ReportsFailure]_vars

\* The same without the paths organize skips.
C16_ThrownFailuresReported ==
    [][/\ PlaceFailuresReported
       /\ RestoreFailuresReported
       /\ ShredFailuresReported
       /\ OrganizeThrowReported]_vars

\* The outcomes of PlaceFinish in which writeFileSync throws.
WriteFaults == {"write", "writeTruncated"}

\* C17: when the metadata write of a quarantine or vault fails after the move
\* succeeded, the handler returns a failure, the content is in the holding
\* directory without a side-record, the original path holds no file, and no
\* listing returns the stored path.
C17_OrphanAfterFailedWrite ==
    [][\A i \in 1 .. MaxCalls, io \in WriteFaults :
          (PlaceFinish(i, io) /\ calls[i].filePath \in DOMAIN fs)
          => LET sp == StoredOf(calls[i])
             IN  /\ ReportsFailure
                 /\ sp \in DOMAIN hold'
                 /\ sp \notin DOMAIN side' \/ ~side'[sp].valid
                 /\ calls[i].filePath \notin DOMAIN fs'
                 /\ \A kind \in Kinds :
                       \A e \in ListEntries(kind)' : e.storedPath # sp]_vars

\* The same for a stored path that names nothing in the holding directory when
\* the move is made.
C17_OrphanAtFreshStoredPath ==
    [][\A i \in 1 .. MaxCalls, io \in WriteFaults :
          (/\ PlaceFinish(i, io)
           /\ calls[i].filePath \in DOMAIN fs
           /\ StoredOf(calls[i]) \notin DOMAIN hold \cup DOMAIN side)
          => LET sp == StoredOf(calls[i])
             IN  /\ ReportsFailure
                 /\ sp \in DOMAIN hold'
                 /\ sp \notin DOMAIN side' \/ ~side'[sp].valid
                 /\ calls[i].filePath \notin DOMAIN fs'
                 /\ \A kind \in Kinds :
                       \A e \in ListEntries(kind)' : e.storedPath # sp]_vars

\* The overwrite writes of the shred that returned last.
ShredWrites == IF last.op = "shred" THEN last.out ELSE {}

\* C18: a successful shred of a file of n > 0 bytes makes exactly 3 overwrite
\* writes of n bytes before its unlink; a successful shred of a zero-byte file
\* makes no overwrite write.
C18_ShredWriteCount ==
    last.success =>
        \A w \in ShredWrites : IF w.bytes > 0 THEN w.writes = 3 ELSE w.writes = 0

\* The part of C18 about files with content.
C18_ThreeWritesOfContent ==
    last.success => \A w \in ShredWrites : w.bytes > 0 => w.writes = 3

\* shredFile(filePath) of fileSystemService.ts, given the handler's result: the
\* boolean the application gets.
shredFile(result) == IF result.success THEN TRUE ELSE FALSE

\* The results of a shred that failed before any overwrite: statSync threw, or
\* the first writeFileSync did.
FailedBeforeOverwrite(filePath) ==
    {Returned("shred", filePath, error, {}) : error \in {"stat", "write"}}

\* What a failed unlink leaves: no further overwrite, and the file with the
\* content of the last overwrite pass.
UnlinkFailureLeavesOverwritten ==
    \A p \in PathInputs, io \in ShredIO :
        (Shred(p, io) /\ p \in DOMAIN fs /\ io.at = "unlink")
        => /\ ~last'.success /\ last'.error = "unlink"
           /\ \A w \in last'.out : w.writes = ShredPasses
           /\ p \in DOMAIN fs'
           /\ fs'[p] = randomBytes(fs[p].size)

\* C19: when the unlink of a shred fails after the three passes, the failure
\* the caller gets differs from the one of a shred that failed before any
\* overwrite, no further overwrite is made, and the file is left with the
\* overwritten content.
C19_UnlinkErrorReported ==
    [][/\ UnlinkFailureLeavesOverwritten
       /\ \A p \in PathInputs, io \in ShredIO :
             (Shred(p, io) /\ p \in DOMAIN fs /\ io.at = "unlink")
             => \A early \in FailedBeforeOverwrite(p) :
                   shredFile(last') # shredFile(early)]_vars

\* The part of C19 about the file.
C19_FileAfterFailedUnlink == [][UnlinkFailureLeavesOverwritten]_vars

----------------------------------------------------------------------------
(* The Sentry scheduler (App.tsx) *)
(* notificationsRef, snoozeMapRef and settingsRef are copies of the React state *)
(* that the effects of lines 32-35 refresh on every change: the model reads    *)
(* the state where the code reads the ref.                                     *)

\* Variant: a window of an hour.
SNOOZE_DURATION_HOUR == 60 * 60 * 1000

SNOOZE_DURATION == 30 * 60 * 1000

\* The values of the saved setting sentryScanInterval (minutes) explored.
Intervals == {15, 30}

\* The period of the timer, fixed when the interval is set up.
Interval == settings.sentryScanInterval * 60000

\* Date.now() is far past SNOOZE_DURATION; the model starts the clock there.
SentryStart == 2 * SNOOZE_DURATION

\* Timer periods explored.
MaxPeriods == 2

\* Sentry scans in flight at the same time.
MaxScans == 1

ScreenshotLimit == 15

DownloadLimit == 10

OutboxSize == 3

Types == {"SCREENSHOTS", "STORAGE"}

\* The scan results tried: at the threshold and one file above it.
ScreenshotCounts == {ScreenshotLimit, ScreenshotLimit + 1}

DownloadCounts == {DownloadLimit, DownloadLimit + 1}

\* Variant: a snooze that lasts half the window.
SnoozedHalf(type, now) ==
    (IF type \in DOMAIN snoozeMap THEN snoozeMap[type] ELSE 0)
        + SNOOZE_DURATION \div 2 > now

\* (snoozeMapRef.current[type] || 0) + SNOOZE_DURATION > now
Snoozed(type, now) ==
    (IF type \in DOMAIN snoozeMap THEN snoozeMap[type] ELSE 0) + SNOOZE_DURATION > now

Note(prefix, type, now) == [id |-> <<prefix, now>>, type |-> type, actionPrompt |-> TRUE]

\* Variant: thresholds that are reached rather than exceeded.
newNotesAtLimit(screenshots, downloads, now) ==
    (IF screenshots >= ScreenshotLimit /\ ~Snoozed("SCREENSHOTS", now)
     THEN <<Note("ss", "SCREENSHOTS", now)>> ELSE <<>>)
    \o
    (IF downloads >= DownloadLimit /\ ~Snoozed("STORAGE", now)
     THEN <<Note("dl", "STORAGE", now)>> ELSE <<>>)

\* The notifications one tick generates from the scan it awaited.
newNotes(screenshots, downloads, now) ==
    (IF screenshots > ScreenshotLimit /\ ~Snoozed("SCREENSHOTS", now)
     THEN <<Note("ss", "SCREENSHOTS", now)>> ELSE <<>>)
    \o
    (IF downloads > DownloadLimit /\ ~Snoozed("STORAGE", now)
     THEN <<Note("dl", "STORAGE", now)>> ELSE <<>>)

\* Variant: slice(0, n), which keeps the oldest entries.
SliceFirst(s, n) == IF Len(s) <= n THEN s ELSE SubSeq(s, 1, n)

\* Array.prototype.slice(-n)
SliceLast(s, n) == IF Len(s) <= n THEN s ELSE SubSeq(s, Len(s) - n + 1, Len(s))

\* [...prev, ...newNotes].slice(-3)
Outbox(prev, notes) == SliceLast(prev \o notes, OutboxSize)

Filter(s, keep(_)) == SelectSeq(s, keep)

Ids(s) == {s[i].id : i \in DOMAIN s}

\* Variant: the interval callback without its guard: it scans whatever the
\* settings say.
SentryFireUnguarded ==
    /\ clock < SentryStart + MaxPeriods * Interval
    /\ scanning < MaxScans
    /\ clock' = clock + Interval
    /\ scanning' = scanning + 1
    /\ lastTick' = lastTick
    /\ UNCHANGED <<files, notifications, snoozeMap, settings, native>>
    /\ UNCHANGED storeVars

\* A timer period passes and the interval callback runs: it returns at once
\* when proactive monitoring is off, and otherwise awaits the scan.
SentryFire ==
    /\ clock < SentryStart + MaxPeriods * Interval
    /\ scanning < MaxScans
    /\ clock' = clock + Interval
    /\ scanning' = IF settings.enableProactiveSentry THEN scanning + 1 ELSE scanning
    /\ lastTick' = IF settings.enableProactiveSentry THEN lastTick
                   ELSE Ran("off", clock', <<"", 0>>, 0, 0, <<>>, <<>>, NoNote, FALSE)
    /\ UNCHANGED <<files, notifications, snoozeMap, settings, native>>
    /\ UNCHANGED storeVars

\* Variant: a tick that hands the whole outbox to the native alert sink.
SentryTickForwardsOutbox(screenshots, downloads) ==
    /\ scanning > 0
    /\ scanning' = scanning - 1
    /\ LET now == clock
           notes == newNotes(screenshots, downloads, now)
           forwarded == IF settings.enableNativeNotifications /\ Len(notes) > 0
                        THEN Outbox(notifications, notes) ELSE <<>>
       IN  /\ notifications' = IF Len(notes) > 0 THEN Outbox(notifications, notes)
                               ELSE notifications
           /\ native' = native \cup Ids(forwarded)
           /\ lastTick' = Ran("tick", now, <<"", 0>>, screenshots, downloads, notes,
                              forwarded, NoNote, FALSE)
    /\ UNCHANGED <<files, snoozeMap, settings, clock>>
    /\ UNCHANGED storeVars

\* The callback after the scan returned `screenshots` files of the Screenshots
\* folder type and `downloads` of the Downloads folder type.
SentryTick(screenshots, downloads) ==
    /\ scanning > 0
    /\ scanning' = scanning - 1
    /\ LET now == clock
           notes == newNotes(screenshots, downloads, now)
           forwarded == IF settings.enableNativeNotifications THEN notes ELSE <<>>
       IN  /\ notifications' = IF Len(notes) > 0 THEN Outbox(notifications, notes)
                               ELSE notifications
           /\ native' = native \cup Ids(forwarded)
           /\ lastTick' = Ran("tick", now, <<"", 0>>, screenshots, downloads, notes,
                              forwarded, NoNote, FALSE)
    /\ UNCHANGED <<files, snoozeMap, settings, clock>>
    /\ UNCHANGED storeVars

\* handleNotificationAction(id, snooze).  via: "toast" (the buttons of a toast of
\* the outbox) or "native" (a click on a native notification, which passes no
\* snooze flag).
handleNotificationAction(via, id, snooze) ==
    LET found == {i \in DOMAIN notifications : notifications[i].id = id}
        note == IF found = {} THEN NoNote
                ELSE notifications[CHOOSE i \in found : \A j \in found : i <= j]
        sets == found # {} /\ (snooze \/ note.actionPrompt)
        keep(n) == n.id # id
    IN  /\ snoozeMap' = IF sets THEN Put(snoozeMap, note.type, clock) ELSE snoozeMap
        /\ notifications' = Filter(notifications, keep)
        /\ lastTick' = Ran(IF snooze THEN "dismiss" ELSE via, clock, id, 0, 0, <<>>, <<>>,
                           note, found # {} /\ ~snooze /\ note.actionPrompt)
        /\ UNCHANGED <<files, settings, scanning, native, clock>>
        /\ UNCHANGED storeVars

\* The settings screen (or an UPDATE_SETTINGS action) flips a switch.
UpdateSettings(key) ==
    /\ settings' = [settings EXCEPT ![key] = ~settings[key]]
    /\ UNCHANGED <<files, notifications, snoozeMap, scanning, native, lastTick, clock>>
    /\ UNCHANGED storeVars

\* The settings start as localStorage saved them.
SavedSettings ==
    [enableProactiveSentry : BOOLEAN, enableNativeNotifications : BOOLEAN,
     sentryScanInterval : Intervals]

InitSentry ==
    /\ SentryIdle
    /\ settings \in SavedSettings
    /\ clock = SentryStart
    /\ fs = Empty
    /\ hold = Empty
    /\ side = Empty
    /\ calls = <<>>
    /\ budget = 0
    /\ last = NoOp

NextSentry ==
    \/ SentryFire
    \/ \E ss \in ScreenshotCounts, dl \in DownloadCounts : SentryTick(ss, dl)
    \/ \E id \in Ids(notifications), snooze \in BOOLEAN :
          handleNotificationAction("toast", id, snooze)
    \/ \E id \in native : handleNotificationAction("native", id, FALSE)
    \/ \E key \in {"enableProactiveSentry", "enableNativeNotifications"} :
          UpdateSettings(key)

SpecSentry == InitSentry /\ [][NextSentry]_vars

----------------------------------------------------------------------------
(* Properties of the Sentry *)

TypeNotes(s, type) == SelectSeq(s, LAMBDA n : n.type = type)

\* The type of the notification an id was generated for.
TypeOf(id) == IF id[1] = "ss" THEN "SCREENSHOTS" ELSE "STORAGE"

\* The notifications of a type that a step adds to the outbox or hands to the
\* native alert sink.
Added(type) ==
    {notifications'[i].id : i \in {j \in DOMAIN notifications' :
                                     /\ notifications'[j].type = type
                                     /\ notifications'[j].id \notin Ids(notifications)}}
        \cup {id \in native' \ native : TypeOf(id) = type}

\* C3: with no snooze entry and 16 screenshots, a tick adds exactly one
\* SCREENSHOTS notification to the outbox; a tick that runs less than 30 minutes
\* after a tick that added one, with no user action in between, adds none.
C3_SecondTickThrottled ==
    [][\A dl \in DownloadCounts :
          /\ (SentryTick(16, dl) /\ "SCREENSHOTS" \notin DOMAIN snoozeMap)
             => /\ Len(TypeNotes(lastTick'.newNotes, "SCREENSHOTS")) = 1
                /\ Cardinality(Added("SCREENSHOTS")) = 1
          /\ (/\ SentryTick(16, dl)
              /\ lastTick.op = "tick"
              /\ Len(TypeNotes(lastTick.newNotes, "SCREENSHOTS")) = 1
              /\ clock - lastTick.now < 30 * 60 * 1000)
             => TypeNotes(lastTick'.newNotes, "SCREENSHOTS") = <<>>]_vars

\* C4: a tick evaluated at a time less than 30 minutes after snooze[T] adds no
\* notification of type T to the outbox and forwards none to the native alert
\* sink, whatever the file counts are.
C4_SnoozeSuppresses ==
    [][\A ss \in ScreenshotCounts, dl \in DownloadCounts, T \in Types :
          (/\ SentryTick(ss, dl)
           /\ T \in DOMAIN snoozeMap
           /\ clock - snoozeMap[T] < 30 * 60 * 1000)
          => /\ Added(T) = {}
             /\ TypeNotes(lastTick'.newNotes, T) = <<>>
             /\ TypeNotes(lastTick'.forwarded, T) = <<>>]_vars

\* C4 (case reached): a tick has run 15 minutes after the screenshot alert was
\* snoozed, found 16 screenshots and generated nothing for them.
C4_Witness ==
    /\ lastTick.op = "tick" /\ lastTick.screenshots > 15
    /\ "SCREENSHOTS" \in DOMAIN snoozeMap
    /\ lastTick.now - snoozeMap["SCREENSHOTS"] > 0
    /\ lastTick.now - snoozeMap["SCREENSHOTS"] < 30 * 60 * 1000
    /\ TypeNotes(lastTick.newNotes, "SCREENSHOTS") = <<>>

\* C5: executing the action of a notification the Sentry has emitted, or
\* dismissing it, sets snooze[type of the notification] to the current time, also
\* when the notification has left the outbox and when the action arrives through
\* a native-notification click.
C5_ActionSetsSnooze ==
    lastTick.op \in {"toast", "native", "dismiss"}
    => /\ TypeOf(lastTick.id) \in DOMAIN snoozeMap
       /\ snoozeMap[TypeOf(lastTick.id)] = lastTick.now

\* C6: the outbox never holds more than 3 entries, and a tick that generates
\* notifications leaves the last 3 elements of the previous outbox followed by
\* the new notifications, so each new notification is in the outbox.
C6_OutboxLastThree ==
    /\ [](Len(notifications) <= 3)
    /\ [][\A ss \in ScreenshotCounts, dl \in DownloadCounts :
             (SentryTick(ss, dl) /\ Len(newNotes(ss, dl, clock)) > 0)
             => LET all == notifications \o newNotes(ss, dl, clock)
                    drop == IF Len(all) > 3 THEN Len(all) - 3 ELSE 0
                IN  /\ notifications' = [i \in 1 .. (Len(all) - drop) |-> all[i + drop]]
                    /\ Ids(newNotes(ss, dl, clock)) \subseteq Ids(notifications')]_vars

\* C6 (case reached): a tick has generated two notifications into an outbox that
\* held two, and the oldest one has gone.
C6_Witness ==
    /\ lastTick.op = "tick" /\ Len(lastTick.newNotes) = 2
    /\ Len(notifications) = 3
    /\ notifications[1].id[2] < lastTick.now
    /\ notifications[1].type = "STORAGE"
    /\ Cardinality(native) = 4

\* C20: a Sentry tick that fires while proactive monitoring is disabled does
\* nothing: it starts no scan, leaves the outbox and the snooze map as they
\* are and forwards nothing to the native alert sink.
C20_DisabledTickIsNoOp ==
    [][(SentryFire /\ ~settings.enableProactiveSentry)
       => /\ scanning' = scanning
          /\ notifications' = notifications
          /\ snoozeMap' = snoozeMap
          /\ native' = native
          /\ lastTick'.op = "off" /\ lastTick'.newNotes = <<>>]_vars

\* A tick has fired with monitoring disabled while the outbox held a
\* notification of an earlier tick.
C20_Witness ==
    /\ lastTick.op = "off"
    /\ ~settings.enableProactiveSentry
    /\ Len(notifications) > 0
    /\ scanning = 0

\* snooze[type] was set less than 30 minutes before `now`.
InWindow(type, now) ==
    type \in DOMAIN snoozeMap /\ now - snoozeMap[type] < 30 * 60 * 1000

\* C21: a tick generates one SCREENSHOTS notification when the screenshot count
\* is above 15 and SCREENSHOTS is not snoozed, and none otherwise; one STORAGE
\* notification when the downloads count is above 10 and STORAGE is not
\* snoozed, and none otherwise; each rule looks at its own count and its own
\* snooze entry only, and every notification generated has an action prompt.
C21_ThresholdRules ==
    [][\A ss \in ScreenshotCounts, dl \in DownloadCounts :
          SentryTick(ss, dl)
          => LET notes == lastTick'.newNotes
             IN  /\ Len(TypeNotes(notes, "SCREENSHOTS"))
                      = (IF ss > 15 /\ ~InWindow("SCREENSHOTS", clock) THEN 1 ELSE 0)
                 /\ Len(TypeNotes(notes, "STORAGE"))
                      = (IF dl > 10 /\ ~InWindow("STORAGE", clock) THEN 1 ELSE 0)
                 /\ \A k \in DOMAIN notes :
                       /\ notes[k].actionPrompt
                       /\ notes[k].type \in Types
                       /\ notes[k].id \in Ids(notifications')]_vars

\* A tick has found 16 screenshots and 11 downloads while STORAGE was snoozed
\* and SCREENSHOTS was not, and generated the SCREENSHOTS notification alone.
C21_Witness ==
    /\ lastTick.op = "tick"
    /\ lastTick.screenshots = 16 /\ lastTick.downloads = 11
    /\ InWindow("STORAGE", lastTick.now)
    /\ ~InWindow("SCREENSHOTS", lastTick.now)
    /\ Len(lastTick.newNotes) = 1
    /\ lastTick.newNotes[1].type = "SCREENSHOTS"

\* C22: a tick hands to the native alert sink exactly the notifications it has
\* just generated, each once, when native alerting is enabled as it completes,
\* and nothing when it is disabled; the outbox is updated either way, and what
\* the outbox already held is not handed over again.
C22_NativeForwarding ==
    [][\A ss \in ScreenshotCounts, dl \in DownloadCounts :
          SentryTick(ss, dl)
          => LET notes == lastTick'.newNotes
                 sent == lastTick'.forwarded
             IN  /\ sent = (IF settings.enableNativeNotifications THEN notes ELSE <<>>)
                 /\ \A j, k \in DOMAIN sent : sent[j].id = sent[k].id => j = k
                 /\ native' = native \cup Ids(sent)
                 /\ Ids(notes) \subseteq Ids(notifications')]_vars

\* A tick has completed with native alerting disabled: it generated a
\* notification into an outbox that held one already forwarded, and forwarded
\* nothing.
C22_Witness ==
    /\ lastTick.op = "tick"
    /\ ~settings.enableNativeNotifications
    /\ Len(lastTick.newNotes) = 1
    /\ lastTick.forwarded = <<>>
    /\ Len(notifications) = 2
    /\ Cardinality(native) = 1
    /\ notifications[1].id \in native
    /\ notifications[2].id \notin native

\* C23: a deep scan of a file that exists and can be stat'ed refuses it as too
\* large iff its size is above 10 * 1024 * 1024 bytes; the refusal is a failure
\* without findings, given before the content is read (a read that would
\* throw is not attempted); a file of at most that size whose read succeeds
\* yields a report.
C23_SizeCap ==
    [][\A p \in PathInputs, io \in ScanIO :
          (DeepScan(p, io) /\ p \in DOMAIN fs /\ io # "stat")
          => LET over == fs[p].size > 10 * 1024 * 1024
                 refused == last'.error = "File too large for deep scan"
             IN  /\ refused <=> over
                 /\ refused => ~last'.success /\ last'.out = {}
                 /\ (~over /\ io = "ok")
                    => /\ last'.success
                       /\ Cardinality(last'.out) = 1
                       /\ \A r \in last'.out :
                             r.threatLevel \in {"safe", "suspicious", "malicious"}]_vars

\* A file of exactly 10 * 1024 * 1024 bytes that holds a suspicious string was
\* scanned and reported malicious.
C23_Witness ==
    \E r \in Scanned :
        /\ fs[last.arg].size = 10 * 1024 * 1024
        /\ r.threatLevel = "malicious"
        /\ \E k \in DOMAIN r.findings : r.findings[k].kind = "string"

\* The PNG findings of a report, and the 0-based positions of the tag 'IEND'
\* in the bytes of the file scanned last.
PngFindings(r) == SelectSeq(r.findings, LAMBDA f : f.kind = "png")

IendAt ==
    LET bytes == fs[last.arg].bytes
    IN  {i \in 0 .. (Len(bytes) - 4) :
            /\ bytes[i + 1] = 73 /\ bytes[i + 2] = 69
            /\ bytes[i + 3] = 78 /\ bytes[i + 4] = 68}

LastIend == CHOOSE i \in IendAt : \A j \in IendAt : j <= i

\* C24 as stated: for a .png of length L whose last 'IEND' starts at index i,
\* the scan adds the trailing-data finding and returns malicious iff more than
\* 8 bytes follow the tag, L - (i + 4) > 8; otherwise it adds no PNG finding.
C24_PngEightBytesAfterTag ==
    \A r \in Scanned :
        toLowerCase(last.arg.name.ext) = ".png"
        => IF IendAt # {} /\ fs[last.arg].size - (LastIend + 4) > 8
           THEN Len(PngFindings(r)) = 1 /\ r.threatLevel = "malicious"
           ELSE PngFindings(r) = <<>>

\* C24 as amended: the scan adds the finding and returns malicious iff more
\* than 8 bytes lie from the start of the tag to the end of the file, that is
\* iff more than 4 bytes follow the tag, L - (i + 4) > 4; otherwise it adds no
\* PNG finding.
C24_PngDataAfterChunk ==
    \A r \in Scanned :
        toLowerCase(last.arg.name.ext) = ".png"
        => IF IendAt # {} /\ fs[last.arg].size - (LastIend + 4) > 4
           THEN Len(PngFindings(r)) = 1 /\ r.threatLevel = "malicious"
           ELSE PngFindings(r) = <<>>

\* A .png with exactly 8 bytes after its only 'IEND' was scanned, and the
\* finding was added.
C24_Witness ==
    \E r \in Scanned :
        /\ last.arg.name.ext = ".png"
        /\ IendAt = {0}
        /\ fs[last.arg].size = 12
        /\ Len(PngFindings(r)) = 1
        /\ r.threatLevel = "malicious"

\* The list the scan that returned last gave.
ScanResults == IF last.op = "scanAll" THEN last.out ELSE {}

\* The files a scan can reach: in a monitored directory or in a subdirectory of
\* one, no name on the way starting with '.' or '$', and neither the file nor
\* a directory on the way being the one that cannot be read.
Reachable(platform, fault) ==
    LET dirs == getUserDirectories(platform)
        roots == {dirs[k] : k \in DOMAIN dirs} \ fault.dirs
    IN  {p \in DOMAIN fs :
            /\ p \notin fault.files /\ p.dir \notin fault.dirs
            /\ Visible(p.name)
            /\ \/ p.dir \in roots
               \/ /\ Len(p.dir) > 1
                  /\ SubSeq(p.dir, 1, Len(p.dir) - 1) \in roots
                  /\ Visible(p.dir[Len(p.dir)])}

\* C25: a directory that cannot be read or a file that cannot be stat'ed is
\* skipped and the scan goes on: scanAll returns every other file that is not
\* hidden and lies less than two levels below a monitored directory, and
\* nothing else.
C25_ScanSkipsUnreadable ==
    \A result \in ScanResults :
        {result[k].path : k \in DOMAIN result} = Reachable(last.arg.platform, last.arg.fault)

\* A scan in which the Screenshots directory could not be read has returned
\* the files of Pictures and of Downloads.
C25_Witness ==
    \E result \in ScanResults :
        /\ \E p \in DOMAIN fs : p.dir \in last.arg.fault.dirs /\ Visible(p.name)
        /\ \E k \in DOMAIN result : result[k].folder = "Pictures"
        /\ \E k \in DOMAIN result : result[k].folder = "Downloads"
        /\ \A k \in DOMAIN result : result[k].path.dir \notin last.arg.fault.dirs

\* currentFiles.filter(f => f.folder === FolderType.SCREENSHOTS) of the Sentry
ScreenshotsOf(result) == {k \in DOMAIN result : result[k].folder = "Screenshots"}

\* C28: scanAll returns each path at most once, so the number of items whose
\* folder is Screenshots, which the Sentry compares with its threshold, is the
\* number of distinct files found there.
C28_EachPathOnce ==
    \A result \in ScanResults :
        /\ \A j, k \in DOMAIN result : result[j].path = result[k].path => j = k
        /\ Cardinality(ScreenshotsOf(result))
              = Cardinality({result[k].path : k \in ScreenshotsOf(result)})

\* The side-records in s that name path p as their origin, and those of them
\* whose stored content is in h (a stored path holds only the base name).
SideFor(s, p) == {sp \in DOMAIN s : s[sp].valid /\ s[sp].originalPath = p}

StoredFor(h, s, p) == SideFor(s, p) \cap DOMAIN h

\* C26: of the quarantine and vault calls on one path that are in flight
\* together at most one succeeds: a call succeeds only while no record of the
\* path exists, and leaves exactly one, content with side-record, at its own
\* stored path; a call that fails without an injected fault, because the
\* other call moved the file first, changes neither holding directory.
C26_NoDoubleMove ==
    [][\A i \in 1 .. MaxCalls :
          /\ \A io \in PlaceIO :
                (PlaceFinish(i, io) /\ last'.success) =>
                    LET P == calls[i].filePath
                        sp == StoredOf(calls[i])
                    IN  /\ SideFor(side, P) = {}
                        /\ P \notin DOMAIN fs'
                        /\ SideFor(side', P) = {sp}
                        /\ StoredFor(hold', side', P) = {sp}
          /\ ((getFileHash(i, "ok") \/ PlaceFinish(i, "ok")) /\ ~last'.success
                    /\ Len(calls') < Len(calls)) =>
                (hold' = hold /\ side' = side)]_vars

\* Two calls on one path were in flight together; the first to finish moved the
\* file and wrote its side-record, the second has just failed at its rename
\* and the path has one record.
C26_Witness ==
    /\ last.op \in Kinds
    /\ last.error = "rename"
    /\ last.arg \notin DOMAIN fs
    /\ Cardinality(SideFor(side, last.arg)) = 1
    /\ StoredFor(hold, side, last.arg) = SideFor(side, last.arg)
    /\ Cardinality(DOMAIN hold) = 1

\* C27: a successful quarantine or vault never overwrites an existing record:
\* its stored path names nothing yet in the holding directory, and every
\* stored content and side-record that was there is unchanged afterwards.
C27_NoOverwrite ==
    [][\A i \in 1 .. MaxCalls :
          (PlaceFinish(i, "ok") /\ last'.success) =>
              /\ StoredOf(calls[i]) \notin DOMAIN hold \cup DOMAIN side
              /\ \A sp \in DOMAIN hold : sp \in DOMAIN hold' /\ hold'[sp] = hold[sp]
              /\ \A sp \in DOMAIN side : sp \in DOMAIN side' /\ side'[sp] = side[sp]]_vars

\* C29: a record enters the folder Quarantine or Vault only in an executeAction
\* whose quarantine or vault invocation on the record's path returned success,
\* and an invocation that failed leaves folder and threatLevel as they were.
C29_FolderFollowsDisposition ==
    [][\A k \in DOMAIN files :
          /\ (files'[k].folder \in {"Quarantine", "Vault"}
                  /\ files'[k].folder # files[k].folder) =>
                \E type \in ActionTypes :
                    /\ executeAction(type, k, "ok")
                    /\ last'.success
                    /\ last'.op = ChannelOf(type)
                    /\ last'.arg = files[k].path
                    /\ files'[k].folder = Disposed(type).folder
          /\ \A type \in ActionTypes, io \in ExecIO :
                (executeAction(type, k, io) /\ ~last'.success) =>
                    (files'[k].folder = files[k].folder
                        /\ files'[k].threatLevel = files[k].threatLevel)]_vars

\* The part that holds: executeAction changes a record exactly when its
\* invocation succeeded.
C29_ExecuteActionFollowsResult ==
    [][\A k \in DOMAIN files, type \in ActionTypes, io \in ExecIO :
          executeAction(type, k, io) =>
              files' = IF last'.success /\ last'.arg = files[k].path
                       THEN onUpdateFile(files, k, Disposed(type))
                       ELSE files]_vars

\* By how much the count of a type is above its threshold.
Excess(type, screenshots, downloads) ==
    IF type = "SCREENSHOTS" THEN screenshots - ScreenshotLimit ELSE downloads - DownloadLimit

\* C30: suppression ends with the window: a tick that runs with monitoring
\* enabled at a time 30 minutes or more after snooze[T] was set, and finds the
\* count of T above its threshold, generates a notification of type T and puts
\* it into the outbox; so does the first such tick.
C30_SnoozeEnds ==
    [][\A ss \in ScreenshotCounts, dl \in DownloadCounts, T \in Types :
          (/\ SentryTick(ss, dl)
           /\ T \in DOMAIN snoozeMap
           /\ clock - snoozeMap[T] >= 30 * 60 * 1000
           /\ Excess(T, ss, dl) > 0)
          => /\ Len(TypeNotes(lastTick'.newNotes, T)) = 1
             /\ Ids(TypeNotes(lastTick'.newNotes, T)) \subseteq Ids(notifications')
             /\ \A i \in DOMAIN notifications' :
                   notifications'[i].id \in Ids(lastTick'.newNotes) =>
                       notifications'[i].id[2] = clock]_vars

\* A STORAGE alert was snoozed, and the tick that ran exactly 30 minutes later
\* found 11 downloads and generated the alert again.
C30_Witness ==
    /\ lastTick.op = "tick"
    /\ lastTick.downloads > 10
    /\ "STORAGE" \in DOMAIN snoozeMap
    /\ lastTick.now - snoozeMap["STORAGE"] = 30 * 60 * 1000
    /\ Len(TypeNotes(lastTick.newNotes, "STORAGE")) = 1
    /\ \E i \in DOMAIN notifications :
          notifications[i].type = "STORAGE" /\ notifications[i].id[2] = lastTick.now

====
